---- MODULE Spec2Model ----
(***************************************************************************)
(* Model of the synthetic SBOM generator (SBOM_Generator.py) and of the    *)
(* parallel batch orchestrator (generate_parallel_sboms.py).               *)
(*                                                                         *)
(* Several state machines share the module.  GenSpec runs one call of     *)
(* generate_spdx_sbom / generate_cyclonedx_sbom, one loop iteration per    *)
(* step.  CliSpec runs SBOM_Generator.py as a script.  BatchSpec runs      *)
(* main() of the orchestrator: the submission loop, the worker pool, every *)
(* job's pipeline and the collection loop.  SeqSpec runs main() of         *)
(* generate_random_sboms.py, CompSpec calls of generate_components, and    *)
(* PipeSpec one call of generate_steps of the pipeline generator.          *)
(***************************************************************************)
EXTENDS Integers, Sequences, FiniteSets, TLC

VARIABLES
    \* ---- generate_spdx_sbom / generate_cyclonedx_sbom ----
    format,               \* which of the two generators runs
    component_count,      \* argument
    complexity_level,     \* argument
    gpc,                  \* position inside the generator
    components,           \* list built by the first pass
    existing_components,  \* "ecosystem:name" keys seen so far
    draw,                 \* (ecosystem, name) held by get_random_component
    attempts,             \* redraw counter of get_random_component
    i,                    \* loop index of the second pass
    relationships,        \* SPDX relationships / CycloneDX dependencies
    edges,                \* (i, dependent_idx) of every slot, in emission order
    sbom,                 \* the returned document (empty until assembled)
    \* ---- generate_parallel_sboms.main ----
    args,                 \* parsed command line
    sbom_generator,       \* the program found at SBOM_Generator.py
    mpc,                  \* position of main()
    futures,              \* one future per submitted job
    call_queue,           \* submitted jobs no worker has taken yet
    worker,               \* job each pool process is executing (0: idle)
    job,                  \* per-job locals of process_sbom
    tmpdirs,              \* temporary directories that exist
    outdir,               \* files of the output directory
    files,                \* files outside the output directory, by path
    yielded,              \* futures as_completed has handed to main
    results,              \* outcomes main has read, in collection order
    successful_sboms,     \* counter of main
    \* ---- SBOM_Generator.py run as a script ----
    output,               \* args.output
    output_format,        \* output_format of the script
    warned,               \* the XML-with-SPDX warning was printed
    sboms_dir,            \* files of the directory sboms, by path
    raised,               \* exception the try block caught ("": none)
    exit_code,            \* exit status of the process
    cpc,                  \* position of the script
    \* ---- generate_random_sboms.main ----
    seq_args,             \* parsed command line
    seq_pc,               \* position of main()
    seq_number,           \* sequential_number of the current iteration
    cwd,                  \* files of the working directory, by name
    seq_outdir,           \* files of the output directory, by path
    \* ---- generate_components.generate_components ----
    COMMON_PACKAGES,      \* the module-level list
    gc_args,              \* arguments of the call in progress
    gc_pc,                \* position inside generate_components
    available_packages,   \* the local name: the list it is bound to
    gc_components,        \* the local list components
    components_json,      \* content of the output file
    gc_calls,             \* calls made in this process
    \* ---- generate_pipeline_with_parallel_sbom_orchestration ----
    pipe_args,            \* arguments of generate_steps
    pipe_pc,              \* position inside generate_steps
    pipe_steps            \* the local list steps

genVars == <<format, component_count, complexity_level, gpc, components,
             existing_components, draw, attempts, i, relationships, edges,
             sbom>>

batchVars == <<args, sbom_generator, mpc, futures, call_queue, worker, job,
               tmpdirs, outdir, files, yielded, results, successful_sboms>>

cliVars == <<output, output_format, warned, sboms_dir, raised, exit_code,
             cpc>>

seqVars == <<seq_args, seq_pc, seq_number, cwd, seq_outdir>>

compVars == <<COMMON_PACKAGES, gc_args, gc_pc, available_packages,
              gc_components, components_json, gc_calls>>

pipeVars == <<pipe_args, pipe_pc, pipe_steps>>

scriptVars == <<seqVars, compVars, pipeVars>>

vars == <<genVars, batchVars, cliVars, scriptVars>>

(***************************************************************************)
(* Bounds                                                                  *)
(***************************************************************************)
MaxCount == 3        \* largest component_count explored
MaxJobs == 2         \* largest --sboms explored
MaxWorkers == 2      \* largest --workers explored
MaxTmp == 2          \* names mkdtemp can choose from
MaxBatchCount == 1   \* largest --count of a batch explored
MaxSeqSboms == 2     \* largest --sboms of the sequential script explored
MaxCalls == 2        \* calls of generate_components in one process
MaxTotal == 2        \* largest total_count explored
MaxPick == 2         \* random.choice draws one of the first MaxPick entries
MaxSteps == 11       \* largest step count of the pipeline generator explored
MaxComponents == 11  \* largest component_count of generate_steps explored

Min(a, b) == IF a < b THEN a ELSE b

(***************************************************************************)
(* Decimal formatting of a natural number, as str() / f-strings do it:     *)
(* most significant digit first, no leading zeros.                         *)
(***************************************************************************)
Digit(d) == CASE d = 0 -> "0" [] d = 1 -> "1" [] d = 2 -> "2" [] d = 3 -> "3"
              [] d = 4 -> "4" [] d = 5 -> "5" [] d = 6 -> "6" [] d = 7 -> "7"
              [] d = 8 -> "8" [] d = 9 -> "9"

RECURSIVE DecStr(_)
DecStr(n) == IF n < 10 THEN <<Digit(n)>>
             ELSE DecStr(n \div 10) \o <<Digit(n % 10)>>

(***************************************************************************)
(* Catalog.  A name is a sequence of tokens so that name.split(':') can be *)
(* computed; ":" is a token of its own.  ECOSYSTEMS is restricted to two   *)
(* ecosystems with one name each, LICENSES to one value, the versions to   *)
(* one value of the x.y.z template and one of the x.y template.            *)
(***************************************************************************)
ECOSYSTEMS == [npm |-> {<<"react">>}, maven |-> {<<"junit", ":", "junit">>}]

LICENSES == {"MIT"}

Versions == {"1.0.0", "2.1"}

Catalog == UNION {{<<e, n>> : n \in ECOSYSTEMS[e]} : e \in DOMAIN ECOSYSTEMS}

NoDraw == <<"", <<>>>>

InList(x, s) == \E k \in 1..Len(s) : s[k] = x

\* name.split(':'): the token runs between the ":" tokens
RECURSIVE Split(_)
Split(name) ==
    IF \A k \in 1..Len(name) : name[k] # ":" THEN <<name>>
    ELSE LET c == CHOOSE k \in 1..Len(name) :
                     name[k] = ":" /\ \A m \in 1..(k - 1) : name[m] # ":"
         IN <<SubSeq(name, 1, c - 1)>> \o Split(SubSeq(name, c + 1, Len(name)))

HasColon(name) == \E k \in 1..Len(name) : name[k] = ":"

\* generate_purl using the maven name without splitting it
generate_purl_NoSplit(ecosystem, name, version) ==
    IF ecosystem = "maven"
    THEN <<"pkg:maven/">> \o name \o <<"@", version>>
    ELSE IF ecosystem \in {"npm", "pypi", "golang", "nuget"}
    THEN <<"pkg:", ecosystem, "/">> \o name \o <<"@", version>>
    ELSE <<"pkg:generic/">> \o name \o <<"@", version>>

generate_purl(ecosystem, name, version) ==
    IF ecosystem = "maven"
    THEN <<"pkg:maven/">> \o Split(name)[1] \o <<"/">> \o Split(name)[2]
             \o <<"@", version>>
    ELSE IF ecosystem \in {"npm", "pypi", "golang", "nuget"}
    THEN <<"pkg:", ecosystem, "/">> \o name \o <<"@", version>>
    ELSE <<"pkg:generic/">> \o name \o <<"@", version>>

generate_cpe(ecosystem, name, version) ==
    LET vendor == IF HasColon(name) THEN Split(name)[1] ELSE name
        product == IF HasColon(name) THEN Split(name)[2] ELSE name
    IN <<"cpe:2.3:a:">> \o vendor \o <<":">> \o product
           \o <<":", version, ":*:*:*:*:*:*:*">>

\* f"{ecosystem}:{name}", the key kept in existing_components
ExistingKey(d) == <<d[1], ":">> \o d[2]

\* redraw ceiling of get_random_component
MaxAttempts == 10

\* MustRedraw without the attempt ceiling
MustRedraw_NoCeiling(d, existing, level, att) ==
    level > 1 /\ InList(ExistingKey(d), existing)

\* the loop condition of get_random_component
MustRedraw(d, existing, level, att) ==
    level > 1 /\ InList(ExistingKey(d), existing) /\ att < MaxAttempts

\* the dict get_random_component returns
comp_info(d, version) ==
    [ecosystem |-> d[1], name |-> d[2], version |-> version,
     purl |-> generate_purl(d[1], d[2], version),
     cpe |-> generate_cpe(d[1], d[2], version)]

\* f"SPDXRef-Package-{i}"
SpdxId(n) == <<"SPDXRef-Package-">> \o DecStr(n)

\* hashlib.md5(f"{name}:{version}").hexdigest()[:16]: a digest is determined
\* by its input and the explored inputs do not collide
package_id(info) == <<"md5">> \o info.name \o <<":", info.version>>

\* f"{purl}?package-id={package_id}"
bom_ref(info) == info.purl \o <<"?package-id=">> \o package_id(info)

\* spdx_external_refs adding the cpe and website references at tier 3 only
spdx_external_refs_Tier3Only(info, level) ==
    <<[referenceCategory |-> "PACKAGE-MANAGER", referenceType |-> "purl",
       referenceLocator |-> info.purl]>>
    \o (IF level > 2
        THEN <<[referenceCategory |-> "SECURITY", referenceType |-> "cpe23Type",
                referenceLocator |-> info.cpe],
               [referenceCategory |-> "OTHER", referenceType |-> "website",
                referenceLocator |-> <<"https://", info.ecosystem,
                                       ".example.org/package/">> \o info.name]>>
        ELSE <<>>)

\* external references of an SPDX package
spdx_external_refs(info, level) ==
    <<[referenceCategory |-> "PACKAGE-MANAGER", referenceType |-> "purl",
       referenceLocator |-> info.purl]>>
    \o (IF level > 1
        THEN <<[referenceCategory |-> "SECURITY", referenceType |-> "cpe23Type",
                referenceLocator |-> info.cpe],
               [referenceCategory |-> "OTHER", referenceType |-> "website",
                referenceLocator |-> <<"https://", info.ecosystem,
                                       ".example.org/package/">> \o info.name]>>
        ELSE <<>>)

\* spdx_package numbering the packages from 1
spdx_package_OneBased(n, info, level, lic) ==
    [SPDXID |-> SpdxId(n + 1), name |-> info.name,
     versionInfo |-> info.version,
     supplier |-> "Organization", licenseConcluded |-> lic,
     licenseDeclared |-> lic, downloadLocation |-> "download",
     filesAnalyzed |-> FALSE,
     externalRefs |-> spdx_external_refs(info, level),
     checksums |-> <<[algorithm |-> "SHA256", checksumValue |-> "sha256"]>>]
    @@ (IF level >= 2
        THEN [description |-> "synthetic", copyrightText |-> "Copyright",
              attributionTexts |-> <<"Attribution">>]
        ELSE <<>>)

\* the package dict of generate_spdx_sbom for index n (0-based)
spdx_package(n, info, level, lic) ==
    [SPDXID |-> SpdxId(n), name |-> info.name, versionInfo |-> info.version,
     supplier |-> "Organization", licenseConcluded |-> lic,
     licenseDeclared |-> lic, downloadLocation |-> "download",
     filesAnalyzed |-> FALSE,
     externalRefs |-> spdx_external_refs(info, level),
     checksums |-> <<[algorithm |-> "SHA256", checksumValue |-> "sha256"]>>]
    @@ (IF level >= 2
        THEN [description |-> "synthetic", copyrightText |-> "Copyright",
              attributionTexts |-> <<"Attribution">>]
        ELSE <<>>)

\* cyclonedx_component adding the licenses at tier 2 only
cyclonedx_component_LicensesTier2Only(info, level, lic) ==
    LET maven == info.ecosystem = "maven" /\ HasColon(info.name)
    IN ("bom-ref" :> bom_ref(info))
       @@ [type |-> "library",
           name |-> IF maven THEN Split(info.name)[2] ELSE info.name,
           version |-> info.version, purl |-> info.purl, cpe |-> info.cpe,
           externalReferences |-> <<[url |-> "", type |-> "build-meta",
               hashes |-> <<[alg |-> "SHA-1", content |-> "sha256"]>>]>>,
           properties |-> <<"syft:package:foundBy", "syft:package:language",
                            "syft:package:type", "syft:package:metadataType",
                            "syft:cpe23", "syft:location:0:path">>]
       @@ (IF maven THEN [group |-> Split(info.name)[1]] ELSE <<>>)
       @@ (IF level = 2 THEN [licenses |-> <<[license |-> [id |-> lic]]>>]
           ELSE <<>>)

\* the component dict of generate_cyclonedx_sbom
cyclonedx_component(info, level, lic) ==
    LET maven == info.ecosystem = "maven" /\ HasColon(info.name)
    IN ("bom-ref" :> bom_ref(info))
       @@ [type |-> "library",
           name |-> IF maven THEN Split(info.name)[2] ELSE info.name,
           version |-> info.version, purl |-> info.purl, cpe |-> info.cpe,
           externalReferences |-> <<[url |-> "", type |-> "build-meta",
               hashes |-> <<[alg |-> "SHA-1", content |-> "sha256"]>>]>>,
           properties |-> <<"syft:package:foundBy", "syft:package:language",
                            "syft:package:type", "syft:package:metadataType",
                            "syft:cpe23", "syft:location:0:path">>]
       @@ (IF maven THEN [group |-> Split(info.name)[1]] ELSE <<>>)
       @@ (IF level >= 2 THEN [licenses |-> <<[license |-> [id |-> lic]]>>]
           ELSE <<>>)

NoDoc == <<>>

(***************************************************************************)
(* generate_spdx_sbom / generate_cyclonedx_sbom                            *)
(***************************************************************************)
Formats == {"spdx", "cyclonedx"}

\* COMMON_PACKAGES as the module defines it
CatalogAtImport ==
    <<"requests", "numpy", "pandas", "matplotlib", "flask", "django",
      "sqlalchemy", "pytest", "pillow", "tensorflow", "torch", "boto3",
      "scikit-learn", "scipy", "beautifulsoup4", "pyyaml", "cryptography",
      "psycopg2", "fastapi", "aiohttp", "jinja2", "celery", "click",
      "pydantic", "pymongo", "redis", "marshmallow", "httpx", "attrs", "tqdm",
      "seaborn", "streamlit", "networkx", "nltk", "dash">>

\* no call of generate_components in progress
NoCall == [total_count |-> 0, ratio |-> <<0, 1>>, use_real_packages |-> FALSE]

\* the local name available_packages before it is bound
Unbound == [bound |-> "none", list |-> <<>>]

\* the sequential script at rest
SeqIdle ==
    /\ seq_args = [count |-> 1, output_dir |-> "sboms", sboms |-> 0,
                   format |-> "spdx"]
    /\ seq_pc = "idle"
    /\ seq_number = 0
    /\ cwd = <<>>
    /\ seq_outdir = <<>>

\* generate_components.py imported and not called
CompIdle ==
    /\ COMMON_PACKAGES = CatalogAtImport
    /\ gc_args = NoCall
    /\ gc_pc = "idle"
    /\ available_packages = Unbound
    /\ gc_components = <<>>
    /\ components_json = <<>>
    /\ gc_calls = 0

\* the pipeline generator at rest
PipeIdle ==
    /\ pipe_args = [count |-> 0, component_count |-> 1,
                    sbom_format |-> "spdx"]
    /\ pipe_pc = "idle"
    /\ pipe_steps = <<>>

\* the three helper scripts at rest
ScriptsIdle == SeqIdle /\ CompIdle /\ PipeIdle

\* exit status of a process that has not ended
NotExited == -1

\* the script at rest (a call of the generator functions from a library, and
\* the orchestrator, never move it)
CliIdle ==
    /\ output = "json"
    /\ output_format = "json"
    /\ warned = FALSE
    /\ sboms_dir = <<>>
    /\ raised = ""
    /\ exit_code = NotExited
    /\ cpc = "idle"

\* the orchestrator at rest (GenSpec never moves it)
BatchIdle ==
    /\ args = [sboms |-> 0, workers |-> 1, count |-> 1, format |-> "spdx",
               output_dir |-> "sboms"]
    /\ sbom_generator = "repository"
    /\ mpc = "idle"
    /\ futures = <<>>
    /\ call_queue = <<>>
    /\ worker = [w \in 1..1 |-> 0]
    /\ job = <<>>
    /\ tmpdirs = {}
    /\ outdir = <<>>
    /\ files = <<>>
    /\ yielded = {}
    /\ results = <<>>
    /\ successful_sboms = 0

GenInit ==
    /\ format \in Formats
    /\ component_count \in 0..MaxCount
    /\ complexity_level \in {1, 2, 3}
    /\ gpc = "components"
    /\ components = <<>>
    /\ existing_components = <<>>
    /\ draw = NoDraw
    /\ attempts = 0
    /\ i = 0
    /\ relationships = <<>>
    /\ edges = <<>>
    /\ sbom = NoDoc
    /\ BatchIdle
    /\ CliIdle
    /\ ScriptsIdle

\* get_random_component: the first draw of ecosystem and name
Draw ==
    /\ gpc = "components"
    /\ Len(components) < component_count
    /\ \E d \in Catalog : draw' = d
    /\ attempts' = 0
    /\ gpc' = "unique"
    /\ UNCHANGED <<format, component_count, complexity_level, components,
                   existing_components, i, relationships, edges, sbom,
                   batchVars, cliVars, scriptVars>>

\* get_random_component: one iteration of the uniqueness loop
Redraw ==
    /\ gpc = "unique"
    /\ MustRedraw(draw, existing_components, complexity_level, attempts)
    /\ \E d \in Catalog : draw' = d
    /\ attempts' = attempts + 1
    /\ UNCHANGED <<format, component_count, complexity_level, gpc, components,
                   existing_components, i, relationships, edges, sbom,
                   batchVars, cliVars, scriptVars>>

\* get_random_component returns; the rest of the first-pass loop body
AppendComponent ==
    /\ gpc = "unique"
    /\ ~MustRedraw(draw, existing_components, complexity_level, attempts)
    /\ \E version \in Versions, lic \in LICENSES :
         LET info == comp_info(draw, version)
             n == Len(components)
         IN components' = Append(components,
                IF format = "spdx"
                THEN spdx_package(n, info, complexity_level, lic)
                ELSE cyclonedx_component(info, complexity_level, lic))
    /\ existing_components' = Append(existing_components, ExistingKey(draw))
    /\ draw' = NoDraw
    /\ attempts' = 0
    /\ gpc' = "components"
    /\ UNCHANGED <<format, component_count, complexity_level, i,
                   relationships, edges, sbom, batchVars, cliVars, scriptVars>>

\* the guard of the second pass
HasSecondPass(level, count) == level > 1 /\ count > 1

\* first source index of the second pass: range(1, n) for SPDX,
\* range(n) with the i > 0 test for CycloneDX
FirstSource(fmt) == IF fmt = "spdx" THEN 1 ELSE 0

\* end of the first pass
EndFirstPass ==
    /\ gpc = "components"
    /\ Len(components) = component_count
    /\ IF HasSecondPass(complexity_level, component_count)
       THEN gpc' = "sources" /\ i' = FirstSource(format)
       ELSE gpc' = "assemble" /\ i' = i
    /\ UNCHANGED <<format, component_count, complexity_level, components,
                   existing_components, draw, attempts, relationships, edges, sbom,
                   batchVars, cliVars, scriptVars>>

\* DependencyCounts without the min(3, i) cap: random.randint(1, 3)
DependencyCounts_NoMin(level, src) ==
    IF level > 2 THEN 1..3 ELSE {1}

\* random.randint(1, min(3, i)) if complexity_level > 2 else 1
DependencyCounts(level, src) ==
    IF level > 2 THEN 1..Min(3, src) ELSE {1}

\* DependentIdxs with the source itself among the targets:
\* random.randint(0, i)
DependentIdxs_Inclusive(src) == 0..src

\* random.randint(0, i-1)
DependentIdxs(src) == 0..(src - 1)

\* the SPDX relationship dicts of one source, one per slot
spdx_relationships(src, targets) ==
    [k \in 1..Len(targets) |->
        [spdxElementId |-> SpdxId(src),
         relatedSpdxElement |-> SpdxId(targets[k]),
         relationshipType |-> "DEPENDS_ON"]]

\* the CycloneDX dependency entry of one source; none when deps is empty
cyclonedx_dependency(comps, src, targets) ==
    LET deps == [k \in 1..Len(targets) |->
                    [ref |-> comps[targets[k] + 1]["bom-ref"]]]
    IN IF deps # <<>>
       THEN <<[ref |-> comps[src + 1]["bom-ref"],
               dependsOn |-> [k \in 1..Len(deps) |-> deps[k].ref]]>>
       ELSE <<>>

\* one iteration of the second-pass loop: index 0 is skipped (CycloneDX);
\* otherwise the number of slots is drawn, then one target per slot
AddDependencies ==
    /\ gpc = "sources"
    /\ i < component_count
    /\ IF i > 0
       THEN \E dependency_count \in DependencyCounts(complexity_level, i) :
            \E targets \in [1..dependency_count -> DependentIdxs(i)] :
               /\ relationships' = relationships \o
                     (IF format = "spdx" THEN spdx_relationships(i, targets)
                      ELSE cyclonedx_dependency(components, i, targets))
               /\ edges' = edges \o [k \in 1..dependency_count |->
                                        <<i, targets[k]>>]
       ELSE UNCHANGED <<relationships, edges>>
    /\ i' = i + 1
    /\ UNCHANGED <<format, component_count, complexity_level, gpc, components,
                   existing_components, draw, attempts, sbom, batchVars, cliVars, scriptVars>>

\* spdx_document setting the relationships key unconditionally
spdx_document_AlwaysKey(comps, rels, level) ==
    [spdxVersion |-> "SPDX-2.2", dataLicense |-> "CC0-1.0",
     SPDXID |-> "SPDXRef-DOCUMENT", name |-> "Synthetic SPDX SBOM",
     documentNamespace |-> "namespace", creationInfo |-> "creationInfo",
     packages |-> comps, relationships |-> rels]

\* the returned SPDX document
spdx_document(comps, rels, level) ==
    [spdxVersion |-> "SPDX-2.2", dataLicense |-> "CC0-1.0",
     SPDXID |-> "SPDXRef-DOCUMENT", name |-> "Synthetic SPDX SBOM",
     documentNamespace |-> "namespace", creationInfo |-> "creationInfo",
     packages |-> comps]
    @@ (IF level > 1 /\ rels # <<>> THEN [relationships |-> rels] ELSE <<>>)

\* Python values whose type the XML projection depends on carry their type:
\* a dict keeps its keys in insertion order
PyStr(s) == [py |-> "str", val |-> s]

PyList(items) == [py |-> "list", val |-> items]

PyDict(keys, at) == [py |-> "dict", keys |-> keys, val |-> at]

\* metadata.tools of the CycloneDX document: a dict with the one key
\* "components", holding a list of one tool dict
cyclonedx_tools ==
    PyDict(<<"components">>,
           [components |-> PyList(<<
               PyDict(<<"type", "author", "name", "version">>,
                      [type |-> PyStr("application"),
                       author |-> PyStr("Performance Testing Team"),
                       name |-> PyStr("SBOM-Generator"),
                       version |-> PyStr("2.0.0")])>>)])

\* the returned CycloneDX document
cyclonedx_document(comps, dependencies, level) ==
    ("$schema" :> "http://cyclonedx.org/schema/bom-1.6.schema.json")
    @@ [bomFormat |-> "CycloneDX", specVersion |-> "1.6",
        serialNumber |-> "urn:uuid", version |-> 1,
        metadata |-> [timestamp |-> "timestamp",
                      tools |-> cyclonedx_tools,
                      component |-> ("bom-ref" :> <<"md5", "root-component">>)
                          @@ [type |-> "application",
                              name |-> "Synthetic Application",
                              version |-> "1.0.0"]],
        components |-> comps]
    @@ (IF level > 1 /\ dependencies # <<>>
        THEN [dependencies |-> dependencies] ELSE <<>>)

\* build and return the document
Assemble ==
    /\ \/ gpc = "assemble"
       \/ gpc = "sources" /\ i >= component_count
    /\ sbom' = IF format = "spdx"
               THEN spdx_document(components, relationships, complexity_level)
               ELSE cyclonedx_document(components, relationships,
                                       complexity_level)
    /\ gpc' = "done"
    /\ UNCHANGED <<format, component_count, complexity_level, components,
                   existing_components, draw, attempts, i, relationships, edges,
                   batchVars, cliVars, scriptVars>>

GenNext ==
    \/ Draw
    \/ Redraw
    \/ AppendComponent
    \/ EndFirstPass
    \/ AddDependencies
    \/ Assemble

GenSpec == GenInit /\ [][GenNext]_vars

\* the generator runs to its return statement: a Python call that can take
\* a step takes it
GenLive == GenSpec /\ WF_vars(GenNext)

(***************************************************************************)
(* cyclonedx_json_to_xml / create_component_element                        *)
(***************************************************************************)
\* for x in v: a dict yields its keys, a list its items
PyIter(v) ==
    IF v.py = "dict" THEN [k \in 1..Len(v.keys) |-> PyStr(v.keys[k])]
    ELSE v.val

\* v.items() exists: only a dict has the method
HasItems(v) == v.py = "dict"

\* an element of the DOM: tag, attributes, child elements, text (<<>>: none)
Element(tag, attrs, children, text) ==
    [tag |-> tag, attrs |-> attrs, children |-> children, text |-> text]

NoElement == Element("", <<>>, <<>>, <<>>)

\* create_component_element writing the group as a text element too
create_component_element_WithGroup(component) ==
    LET attrs == ("type" :> (IF "type" \in DOMAIN component
                             THEN component.type ELSE ""))
                 @@ (IF "bom-ref" \in DOMAIN component
                     THEN ("bom-ref" :> component["bom-ref"]) ELSE <<>>)
        keys == SelectSeq(<<"name", "version", "description", "purl", "cpe",
                            "group">>,
                          LAMBDA key : key \in DOMAIN component)
        simple == [j \in 1..Len(keys) |->
                      Element(keys[j], <<>>, <<>>, component[keys[j]])]
        license_elem(license_obj) ==
            Element("license", <<>>,
                    IF "license" \in DOMAIN license_obj
                       /\ "id" \in DOMAIN license_obj.license
                    THEN <<Element("id", <<>>, <<>>, license_obj.license.id)>>
                    ELSE <<>>,
                    <<>>)
        licenses == IF "licenses" \in DOMAIN component
                    THEN <<Element("licenses", <<>>,
                             [j \in 1..Len(component.licenses) |->
                                 license_elem(component.licenses[j])], <<>>)>>
                    ELSE <<>>
        hashes == IF "hashes" \in DOMAIN component
                  THEN <<Element("hashes", <<>>,
                           [j \in 1..Len(component.hashes) |->
                               Element("hash",
                                       [alg |-> component.hashes[j].alg],
                                       <<>>, component.hashes[j].content)],
                           <<>>)>>
                  ELSE <<>>
    IN Element("component", attrs, simple \o licenses \o hashes, <<>>)

create_component_element(component) ==
    LET attrs == ("type" :> (IF "type" \in DOMAIN component
                             THEN component.type ELSE ""))
                 @@ (IF "bom-ref" \in DOMAIN component
                     THEN ("bom-ref" :> component["bom-ref"]) ELSE <<>>)
        keys == SelectSeq(<<"name", "version", "description", "purl", "cpe">>,
                          LAMBDA key : key \in DOMAIN component)
        simple == [j \in 1..Len(keys) |->
                      Element(keys[j], <<>>, <<>>, component[keys[j]])]
        license_elem(license_obj) ==
            Element("license", <<>>,
                    IF "license" \in DOMAIN license_obj
                       /\ "id" \in DOMAIN license_obj.license
                    THEN <<Element("id", <<>>, <<>>, license_obj.license.id)>>
                    ELSE <<>>,
                    <<>>)
        licenses == IF "licenses" \in DOMAIN component
                    THEN <<Element("licenses", <<>>,
                             [j \in 1..Len(component.licenses) |->
                                 license_elem(component.licenses[j])], <<>>)>>
                    ELSE <<>>
        hashes == IF "hashes" \in DOMAIN component
                  THEN <<Element("hashes", <<>>,
                           [j \in 1..Len(component.hashes) |->
                               Element("hash",
                                       [alg |-> component.hashes[j].alg],
                                       <<>>, component.hashes[j].content)],
                           <<>>)>>
                  ELSE <<>>
    IN Element("component", attrs, simple \o licenses \o hashes, <<>>)

\* the tools element: one tool element per item of the iteration, one child
\* per (key, value) of tool.items()
tools_element(tools) ==
    LET its == PyIter(tools)
    IN Element("tools", <<>>,
          [j \in 1..Len(its) |->
              Element("tool", <<>>,
                  [m \in 1..Len(its[j].keys) |->
                      Element(its[j].keys[m], <<>>, <<>>,
                              its[j].val[its[j].keys[m]].val)],
                  <<>>)],
          <<>>)

\* the dependencies element
dependencies_element(dependencies) ==
    Element("dependencies", <<>>,
        [j \in 1..Len(dependencies) |->
            Element("dependency", [ref |-> dependencies[j].ref],
                IF "dependsOn" \in DOMAIN dependencies[j]
                THEN [m \in 1..Len(dependencies[j].dependsOn) |->
                         Element("dependsOn", <<>>, <<>>,
                                 dependencies[j].dependsOn[m])]
                ELSE <<>>,
                <<>>)],
        <<>>)

\* cyclonedx_json_to_xml: the exception that leaves it ("": none) and the
\* root element it returns.  tool.items() raises AttributeError for an item
\* of the tools iteration that is not a dict.
cyclonedx_json_to_xml(sbom_json) ==
    LET has_metadata == "metadata" \in DOMAIN sbom_json
        md == sbom_json.metadata
        has_tools == has_metadata /\ "tools" \in DOMAIN md
        tools_raise == has_tools /\ \E j \in 1..Len(PyIter(md.tools)) :
                                       ~HasItems(PyIter(md.tools)[j])
        metadata_elem ==
            Element("metadata", <<>>,
                (IF "timestamp" \in DOMAIN md
                 THEN <<Element("timestamp", <<>>, <<>>, md.timestamp)>>
                 ELSE <<>>)
                \o (IF "tools" \in DOMAIN md THEN <<tools_element(md.tools)>>
                    ELSE <<>>)
                \o (IF "component" \in DOMAIN md
                    THEN <<create_component_element(md.component)>>
                    ELSE <<>>),
                <<>>)
        comps == IF "components" \in DOMAIN sbom_json
                 THEN sbom_json.components ELSE <<>>
        components_elem ==
            Element("components", <<>>,
                    [j \in 1..Len(comps) |-> create_component_element(comps[j])],
                    <<>>)
        root_attrs ==
            [xmlns |-> "http://cyclonedx.org/schema/bom/1.4",
             serialNumber |-> IF "serialNumber" \in DOMAIN sbom_json
                              THEN sbom_json.serialNumber ELSE "",
             version |-> IF "version" \in DOMAIN sbom_json
                         THEN DecStr(sbom_json.version) ELSE <<"1">>]
    IN IF tools_raise THEN [raised |-> "AttributeError", root |-> NoElement]
       ELSE [raised |-> "",
             root |-> Element("bom", root_attrs,
                 (IF has_metadata THEN <<metadata_elem>> ELSE <<>>)
                 \o <<components_elem>>
                 \o (IF "dependencies" \in DOMAIN sbom_json
                     THEN <<dependencies_element(sbom_json.dependencies)>>
                     ELSE <<>>),
                 <<>>)]

(***************************************************************************)
(* save_sbom and the script part of SBOM_Generator.py                      *)
(***************************************************************************)
\* f'synthetic_{args.format}_{args.count}_c{args.complexity}.{output_format}'
SyntheticFilename(fmt, count, level, ext) ==
    <<"synthetic_", fmt, "_">> \o DecStr(count) \o <<"_c">> \o DecStr(level)
        \o <<".", ext>>

\* what the file system does to save_sbom: it accepts the write, makedirs
\* raises, or open raises
FsOutcomes == {"ok", "makedirs raises", "open raises"}

\* save_sbom(sbom, filename, format_type) on directory content dir: the
\* exception that leaves it ("": none) and the directory content afterwards
save_sbom(dir, sbom_json, filename, format_type, fs) ==
    LET filepath == <<"sboms", "/">> \o filename
        failed(exception) == [raised |-> exception, dir |-> dir]
        written(kind, content) ==
            [raised |-> "",
             dir |-> (filepath :> [kind |-> kind, content |-> content]) @@ dir]
    IN IF fs = "makedirs raises" THEN failed("OSError")
       ELSE IF format_type = "json"
       THEN IF fs = "open raises" THEN failed("OSError")
            ELSE written("json", sbom_json)
       ELSE IF format_type = "xml" /\ "bomFormat" \in DOMAIN sbom_json
       THEN LET xml_doc == cyclonedx_json_to_xml(sbom_json)
            IN IF xml_doc.raised # "" THEN failed(xml_doc.raised)
               ELSE IF fs = "open raises" THEN failed("OSError")
               ELSE written("xml", xml_doc.root)
       ELSE failed("ValueError")

CliInit ==
    /\ format \in Formats
    /\ component_count \in 0..MaxCount
    /\ complexity_level \in {1, 2, 3}
    /\ output \in {"json", "xml"}
    /\ gpc = "idle"
    /\ components = <<>>
    /\ existing_components = <<>>
    /\ draw = NoDraw
    /\ attempts = 0
    /\ i = 0
    /\ relationships = <<>>
    /\ edges = <<>>
    /\ sbom = NoDoc
    /\ output_format = ""
    /\ warned = FALSE
    /\ sboms_dir = <<>>
    /\ raised = ""
    /\ exit_code = NotExited
    /\ cpc = "main"
    /\ BatchIdle
    /\ ScriptsIdle

\* Main passing args.output on unchanged
Main_NoFallback ==
    /\ cpc = "main"
    /\ warned' = FALSE
    /\ output_format' = output
    /\ gpc' = "components"
    /\ cpc' = "try"
    /\ UNCHANGED <<format, component_count, complexity_level, components,
                   existing_components, draw, attempts, i, relationships,
                   edges, sbom, output, sboms_dir, raised, exit_code,
                   batchVars, scriptVars>>

\* the script after parse_args: the XML-with-SPDX warning and fallback, then
\* the try block calls the generator of args.format
Main ==
    /\ cpc = "main"
    /\ warned' = (output = "xml" /\ format = "spdx")
    /\ output_format' = IF output = "xml" /\ format = "spdx" THEN "json"
                        ELSE output
    /\ gpc' = "components"
    /\ cpc' = "try"
    /\ UNCHANGED <<format, component_count, complexity_level, components,
                   existing_components, draw, attempts, i, relationships,
                   edges, sbom, output, sboms_dir, raised, exit_code,
                   batchVars, scriptVars>>

\* the generator has returned; save_sbom returns the path or raises into the
\* except branch
SaveSbom ==
    /\ cpc = "try"
    /\ gpc = "done"
    /\ \E fs \in FsOutcomes :
         LET filename == SyntheticFilename(format, component_count,
                                           complexity_level, output_format)
             r == save_sbom(sboms_dir, sbom, filename, output_format, fs)
         IN /\ sboms_dir' = r.dir
            /\ raised' = r.raised
            /\ cpc' = IF r.raised = "" THEN "print" ELSE "except"
    /\ UNCHANGED <<genVars, batchVars, scriptVars, output, output_format, warned,
                   exit_code>>

\* the success message or the error message is printed and the script runs
\* off its end: sys.exit is never called, the status is 0
Exit ==
    /\ cpc \in {"print", "except"}
    /\ exit_code' = 0
    /\ cpc' = "exited"
    /\ UNCHANGED <<genVars, batchVars, scriptVars, output, output_format, warned,
                   sboms_dir, raised>>

CliNext ==
    \/ Main
    \/ GenNext
    \/ SaveSbom
    \/ Exit

CliSpec == CliInit /\ [][CliNext]_vars

(***************************************************************************)
(* generate_parallel_sboms.py                                              *)
(***************************************************************************)
DEFAULT_OUTPUT_DIR == "sboms"
COMPONENTS_FILE == "components.json"
SBOM_OUTPUT == "sbom.json"

\* no temporary directory; directories are numbered from 1
None == 0

\* os.path.join(directory, filename)
PathJoin(dir, filename) == dir \o <<"/">> \o filename

\* the path of a temporary directory named d
TmpPath(d) == <<"/tmp/", "tmp">> \o DecStr(d)

\* the generator at rest (BatchSpec never moves it)
GenIdle ==
    /\ format = "spdx"
    /\ component_count = 0
    /\ complexity_level = 1
    /\ gpc = "idle"
    /\ components = <<>>
    /\ existing_components = <<>>
    /\ draw = NoDraw
    /\ attempts = 0
    /\ i = 0
    /\ relationships = <<>>
    /\ edges = <<>>
    /\ sbom = NoDoc

\* f"sbom_{sbom_format}_{component_count}_{sequential_number}.json" joined
\* to the output directory
generate_unique_filename(output_dir, sbom_format, count, sequential_number) ==
    PathJoin(<<output_dir>>,
             <<"sbom_", sbom_format, "_">> \o DecStr(count)
                 \o <<"_">> \o DecStr(sequential_number) \o <<".json">>)

\* components_file ignoring the temporary directory of the job
components_file_Cwd(temp_dir) == <<COMPONENTS_FILE>>

\* the components file generate_components writes for a job
components_file(temp_dir) ==
    IF temp_dir # None THEN PathJoin(TmpPath(temp_dir), <<COMPONENTS_FILE>>)
    ELSE <<COMPONENTS_FILE>>

\* temp_sbom_output of process_sbom
temp_sbom_output(temp_dir) == PathJoin(TmpPath(temp_dir), <<SBOM_OUTPUT>>)

\* the program python3 finds at SBOM_Generator.py in the working directory:
\* the script of this repository, or another program of which nothing is
\* known (its exit status and its effect on the output path are free)
SbomGenerators == {"repository", "other"}

\* the arguments generate_sbom passes after "python3 SBOM_Generator.py";
\* every argument is a sequence of tokens
generate_sbom_argv(components_path, output_file, sbom_format) ==
    <<<<"--config">>, components_path, <<"--format">>, <<sbom_format>>,
      <<"--output">>, output_file>>

\* int(value) succeeds: a non-empty run of decimal digits
IsIntArg(value) ==
    /\ value # <<>>
    /\ \A t \in 1..Len(value) : \E d \in 0..9 : value[t] = Digit(d)

\* the options the parser of SBOM_Generator.py declares, each with the
\* values it accepts
OptionAccepts(flag, value) ==
    CASE flag = <<"--format">> -> value \in {<<"spdx">>, <<"cyclonedx">>}
      [] flag = <<"--count">> -> IsIntArg(value)
      [] flag = <<"--complexity">> -> value \in {<<"1">>, <<"2">>, <<"3">>}
      [] flag = <<"--output">> -> value \in {<<"json">>, <<"xml">>}
      [] OTHER -> FALSE

\* exit status parser.parse_args() ends the process with (0: it returns):
\* an argument that is no declared option, or a value outside the choices of
\* its option, is an error, and argparse exits with status 2
RECURSIVE parse_args_status(_)
parse_args_status(argv) ==
    IF argv = <<>> THEN 0
    ELSE IF Len(argv) >= 2 /\ OptionAccepts(argv[1], argv[2])
    THEN parse_args_status(SubSeq(argv, 3, Len(argv)))
    ELSE 2

\* the result dict process_sbom starts with
InitialResult(sequential_number, output_file) ==
    [sequential_number |-> sequential_number, success |-> FALSE,
     message |-> "Processing", output_file |-> output_file]

NoResult == [sequential_number |-> 0, success |-> FALSE, message |-> "",
             output_file |-> <<>>]

\* the locals of a process_sbom call that has not started; steps records
\* the pipeline steps the call has executed, in order
QueuedJob(sequential_number) ==
    [pc |-> "queued", sequential_number |-> sequential_number,
     temp_dir |-> None, output_file |-> <<>>, result |-> NoResult,
     steps |-> <<>>]

PendingFuture == [state |-> "PENDING", exception |-> FALSE,
                  result |-> NoResult]

BatchInit ==
    /\ \E J \in 0..MaxJobs, W \in 1..MaxWorkers, c \in 1..MaxBatchCount,
          f \in {"cyclonedx", "spdx"} :
         /\ args = [sboms |-> J, workers |-> W, count |-> c, format |-> f,
                    output_dir |-> DEFAULT_OUTPUT_DIR]
         /\ worker = [w \in 1..W |-> 0]
    /\ sbom_generator \in SbomGenerators
    /\ mpc = "with"
    /\ futures = <<>>
    /\ call_queue = <<>>
    /\ job = <<>>
    /\ tmpdirs = {}
    /\ outdir = <<>>
    /\ files = <<>>
    /\ yielded = {}
    /\ results = <<>>
    /\ successful_sboms = 0
    /\ GenIdle
    /\ CliIdle
    /\ ScriptsIdle

\* Submit numbering the jobs from 0
Submit_ZeroBased ==
    /\ mpc = "with"
    /\ Len(futures) < args.sboms
    /\ LET n == Len(futures) + 1
       IN /\ futures' = Append(futures, PendingFuture)
          /\ job' = Append(job, QueuedJob(n - 1))
          /\ call_queue' = Append(call_queue, n)
    /\ UNCHANGED <<args, sbom_generator, mpc, worker, tmpdirs, outdir, files, yielded,
                   results, successful_sboms, genVars, cliVars, scriptVars>>

\* main: one iteration of the submission loop, executor.submit(process_sbom, i, ...)
Submit ==
    /\ mpc = "with"
    /\ Len(futures) < args.sboms
    /\ LET n == Len(futures) + 1
       IN /\ futures' = Append(futures, PendingFuture)
          /\ job' = Append(job, QueuedJob(n))
          /\ call_queue' = Append(call_queue, n)
    /\ UNCHANGED <<args, sbom_generator, mpc, worker, tmpdirs, outdir, files, yielded,
                   results, successful_sboms, genVars, cliVars, scriptVars>>

\* StartJob with a pool that starts a process per job, busy or not
StartJob_Unbounded(w) ==
    /\ call_queue # <<>>
    /\ LET k == Head(call_queue)
       IN /\ worker' = [worker EXCEPT ![w] = k]
          /\ futures' = [futures EXCEPT ![k].state = "RUNNING"]
          /\ job' = [job EXCEPT ![k].pc = "start"]
    /\ call_queue' = Tail(call_queue)
    /\ UNCHANGED <<args, sbom_generator, mpc, tmpdirs, outdir, files, yielded, results,
                   successful_sboms, genVars, cliVars, scriptVars>>

\* a pool process takes the next work item
StartJob(w) ==
    /\ worker[w] = 0
    /\ call_queue # <<>>
    /\ LET k == Head(call_queue)
       IN /\ worker' = [worker EXCEPT ![w] = k]
          /\ futures' = [futures EXCEPT ![k].state = "RUNNING"]
          /\ job' = [job EXCEPT ![k].pc = "start"]
    /\ call_queue' = Tail(call_queue)
    /\ UNCHANGED <<args, sbom_generator, mpc, tmpdirs, outdir, files, yielded, results,
                   successful_sboms, genVars, cliVars, scriptVars>>

\* path lies inside directory dir
Inside(path, dir) ==
    /\ Len(path) > Len(dir)
    /\ SubSeq(path, 1, Len(dir)) = dir
    /\ path[Len(dir) + 1] = "/"

\* a file and the job that wrote it last
File(k, content) == [content |-> content, writer |-> k]

\* the file system after job k wrote path (the temporary directories and
\* the working directory)
Written(fs, k, path) == (path :> File(k, "complete")) @@ fs

\* the runs `python3 SBOM_Generator.py argv` can take for job k: the exit
\* status and the file system afterwards.  The script of the repository
\* ends in parse_args when an argument is rejected; with accepted arguments
\* it runs in synthetic mode, never writes the path of --output and ends
\* with status 0.
GeneratorRuns(generator, argv, fs, k, path) ==
    IF generator = "repository"
    THEN {[returncode |-> parse_args_status(argv), files |-> fs]}
    ELSE {[returncode |-> rc, files |-> f] :
             rc \in {0, 1}, f \in {fs, Written(fs, k, path)}}

\* the file system after directory d and everything in it was removed
Removed(fs, d) ==
    IF d = None THEN fs
    ELSE [p \in {q \in DOMAIN fs : ~Inside(q, TmpPath(d))} |-> fs[p]]

\* the pipeline steps of process_sbom, in the order of its code
PipelineSteps == <<"components", "sbom", "copy">>

\* the executed steps of a job once the step it stands at has been run
StepsAfter(j) ==
    IF InList(j.pc, PipelineSteps) THEN Append(j.steps, j.pc) ELSE j.steps

\* process_sbom is left through return or through an exception: the
\* temporary directory is removed, the future is resolved, the process is
\* idle.  fs is the file system the last step of the job left behind.
Leave(k, fs) ==
    /\ tmpdirs' = tmpdirs \ {job[k].temp_dir}
    /\ files' = Removed(fs, job[k].temp_dir)
    /\ worker' = [w \in DOMAIN worker |-> IF worker[w] = k THEN 0 ELSE worker[w]]

\* process_sbom returns its result dict
Return(k, res, fs) ==
    /\ job' = [job EXCEPT ![k].pc = "returned", ![k].result = res,
                          ![k].temp_dir = None,
                          ![k].steps = StepsAfter(job[k])]
    /\ futures' = [futures EXCEPT ![k].state = "FINISHED", ![k].result = res]
    /\ Leave(k, fs)

\* an exception leaves process_sbom
Raise(k, fs) ==
    /\ job' = [job EXCEPT ![k].pc = "raised", ![k].temp_dir = None,
                          ![k].steps = StepsAfter(job[k])]
    /\ futures' = [futures EXCEPT ![k].state = "FINISHED",
                                  ![k].exception = TRUE]
    /\ Leave(k, fs)

\* process_sbom up to the first subprocess: tempfile.TemporaryDirectory()
\* either creates a directory that did not exist or raises OSError
CreateWorkspace(k) ==
    /\ job[k].pc = "start"
    /\ \/ \E d \in (1..MaxTmp) \ tmpdirs :
            LET output_file == generate_unique_filename(args.output_dir,
                    args.format, args.count, job[k].sequential_number)
            IN /\ tmpdirs' = tmpdirs \cup {d}
               /\ job' = [job EXCEPT ![k].pc = "components",
                            ![k].temp_dir = d,
                            ![k].output_file = output_file,
                            ![k].result = InitialResult(
                                job[k].sequential_number, output_file)]
               /\ UNCHANGED <<futures, worker, files>>
       \/ Raise(k, files)
    /\ UNCHANGED <<args, sbom_generator, mpc, call_queue, outdir, yielded, results,
                   successful_sboms, genVars, cliVars, scriptVars>>

\* generate_components and the test of its result: the subprocess exits
\* with 0 having written the components file, exits with another code
\* (CalledProcessError, caught), or cannot be started (OSError, not caught)
GenerateComponents(k) ==
    /\ job[k].pc = "components"
    /\ LET path == components_file(job[k].temp_dir)
       IN \/ /\ files' = Written(files, k, path)
             /\ job' = [job EXCEPT ![k].pc = "sbom",
                                   ![k].steps = StepsAfter(job[k])]
             /\ UNCHANGED <<futures, tmpdirs, worker>>
          \/ \E fs \in {files, Written(files, k, path)} :
                Return(k, [job[k].result EXCEPT
                              !.message = "Failed to generate components"], fs)
          \/ Raise(k, files)
    /\ UNCHANGED <<args, sbom_generator, mpc, call_queue, outdir, yielded, results,
                   successful_sboms, genVars, cliVars, scriptVars>>

\* GenerateSbom running the generator again after a non-zero exit
GenerateSbom_RunAgain(k) ==
    /\ job[k].pc = "sbom"
    /\ LET path == temp_sbom_output(job[k].temp_dir)
           argv == generate_sbom_argv(components_file(job[k].temp_dir), path,
                                      args.format)
       IN \/ \E run \in GeneratorRuns(sbom_generator, argv, files, k, path) :
                IF run.returncode = 0
                THEN /\ files' = run.files
                     /\ job' = [job EXCEPT ![k].pc = "copy",
                                           ![k].steps = StepsAfter(job[k])]
                     /\ UNCHANGED <<futures, tmpdirs, worker>>
                ELSE /\ Len(job[k].steps) < 3
                     /\ job' = [job EXCEPT ![k].steps = StepsAfter(job[k])]
                     /\ UNCHANGED <<futures, tmpdirs, worker, files>>
          \/ Raise(k, files)
    /\ UNCHANGED <<args, sbom_generator, mpc, call_queue, outdir, yielded,
                   results, successful_sboms, genVars, cliVars, scriptVars>>

\* generate_sbom and the test of its result: the subprocess exits with 0
\* (with or without the output written), exits with another status
\* (CalledProcessError, caught), or cannot be started (OSError, not caught)
GenerateSbom(k) ==
    /\ job[k].pc = "sbom"
    /\ LET path == temp_sbom_output(job[k].temp_dir)
           argv == generate_sbom_argv(components_file(job[k].temp_dir), path,
                                      args.format)
       IN \/ \E run \in GeneratorRuns(sbom_generator, argv, files, k, path) :
                IF run.returncode = 0
                THEN /\ files' = run.files
                     /\ job' = [job EXCEPT ![k].pc = "copy",
                                           ![k].steps = StepsAfter(job[k])]
                     /\ UNCHANGED <<futures, tmpdirs, worker>>
                ELSE Return(k, [job[k].result EXCEPT
                                   !.message = "Failed to generate SBOM"],
                            run.files)
          \/ Raise(k, files)
    /\ UNCHANGED <<args, sbom_generator, mpc, call_queue, outdir, yielded,
                   results, successful_sboms, genVars, cliVars, scriptVars>>

\* os.path.exists(temp_sbom_output)
SbomExists(k) == temp_sbom_output(job[k].temp_dir) \in DOMAIN files

\* the copy step up to the point where shutil.copy2 has opened the
\* destination: the source is missing (result returned), the destination
\* cannot be opened (exception caught, result returned), or the destination
\* now exists and is being written
BeginCopy(k) ==
    /\ job[k].pc = "copy"
    /\ \/ /\ ~SbomExists(k)
          /\ Return(k, [job[k].result EXCEPT !.message = "SBOM file not found"],
                    files)
          /\ outdir' = outdir
       \/ /\ SbomExists(k)
          /\ Return(k, [job[k].result EXCEPT !.message = "Error copying SBOM"],
                    files)
          /\ outdir' = outdir
       \/ /\ SbomExists(k)
          /\ outdir' = (job[k].output_file :> File(k, "partial")) @@ outdir
          /\ job' = [job EXCEPT ![k].pc = "copying",
                                ![k].steps = StepsAfter(job[k])]
          /\ UNCHANGED <<futures, tmpdirs, worker, files>>
    /\ UNCHANGED <<args, sbom_generator, mpc, call_queue, yielded, results, successful_sboms,
                   genVars, cliVars, scriptVars>>

\* the rest of shutil.copy2 and of process_sbom: the copy completes
\* (success), writing the data fails and leaves what was written, or the
\* data is written and copying the metadata fails; every exception is caught
FinishCopy(k) ==
    /\ job[k].pc = "copying"
    /\ \/ /\ outdir' = (job[k].output_file :> File(k, "complete")) @@ outdir
          /\ Return(k, [job[k].result EXCEPT
                           !.success = TRUE,
                           !.message = "Successfully generated SBOM"], files)
       \/ /\ outdir' = outdir
          /\ Return(k, [job[k].result EXCEPT !.message = "Error copying SBOM"],
                    files)
       \/ /\ outdir' = (job[k].output_file :> File(k, "complete")) @@ outdir
          /\ Return(k, [job[k].result EXCEPT !.message = "Error copying SBOM"],
                    files)
    /\ UNCHANGED <<args, sbom_generator, mpc, call_queue, yielded, results, successful_sboms,
                   genVars, cliVars, scriptVars>>

\* main: one iteration of the as_completed loop; future.result() returns the
\* result dict or re-raises the exception of the job
Collect ==
    /\ mpc = "with"
    /\ Len(futures) = args.sboms
    /\ \E k \in (1..Len(futures)) \ yielded :
         /\ futures[k].state = "FINISHED"
         /\ yielded' = yielded \cup {k}
         /\ IF futures[k].exception
            THEN /\ mpc' = "raising"
                 /\ UNCHANGED <<results, successful_sboms>>
            ELSE /\ results' = Append(results, futures[k].result)
                 /\ successful_sboms' =
                       IF futures[k].result.success
                       THEN successful_sboms + 1 ELSE successful_sboms
                 /\ mpc' = mpc
    /\ UNCHANGED <<args, sbom_generator, futures, call_queue, worker, job, tmpdirs, outdir,
                   files, genVars, cliVars, scriptVars>>

AllFinished == \A k \in 1..Len(futures) : futures[k].state = "FINISHED"

\* main: as_completed is exhausted, the executor shuts down, the summary is
\* printed
Finish ==
    /\ mpc = "with"
    /\ Len(futures) = args.sboms
    /\ yielded = 1..Len(futures)
    /\ mpc' = "done"
    /\ UNCHANGED <<args, sbom_generator, futures, call_queue, worker, job, tmpdirs, outdir,
                   files, yielded, results, successful_sboms, genVars, cliVars, scriptVars>>

\* main: an exception leaves the with block; shutdown(wait=True) lets every
\* submitted job finish, then main ends with the exception
Crash ==
    /\ mpc = "raising"
    /\ AllFinished
    /\ mpc' = "crashed"
    /\ UNCHANGED <<args, sbom_generator, futures, call_queue, worker, job, tmpdirs, outdir,
                   files, yielded, results, successful_sboms, genVars, cliVars, scriptVars>>

BatchNext ==
    \/ Submit
    \/ \E w \in DOMAIN worker : StartJob(w)
    \/ \E k \in 1..Len(job) : CreateWorkspace(k)
    \/ \E k \in 1..Len(job) : GenerateComponents(k)
    \/ \E k \in 1..Len(job) : GenerateSbom(k)
    \/ \E k \in 1..Len(job) : BeginCopy(k)
    \/ \E k \in 1..Len(job) : FinishCopy(k)
    \/ Collect
    \/ Finish
    \/ Crash

BatchSpec == BatchInit /\ [][BatchNext]_vars

(***************************************************************************)
(* generate_random_sboms.py: main() runs the jobs one after another in the *)
(* working directory.  The content of a file is recorded by the run and    *)
(* the iteration that produced it.                                         *)
(***************************************************************************)
\* content left by an earlier run of the script
Earlier == [run |-> "earlier", iteration |-> 0, complete |-> TRUE]

\* content a subprocess of iteration n of this run writes
Produced(n) == [run |-> "this", iteration |-> n, complete |-> TRUE]

\* f"sbom_{sbom_format}_{component_count}_{sequential_number}.json" joined
\* to the output directory (generate_random_sboms.py)
random_sboms_generate_unique_filename(output_dir, sbom_format, count, n) ==
    PathJoin(<<output_dir>>,
             <<"sbom_", sbom_format, "_">> \o DecStr(count)
                 \o <<"_">> \o DecStr(n) \o <<".json">>)

\* the runs a subprocess of iteration n can take: the exit status and the
\* working directory afterwards.  The script never looks at what the program
\* did, only at its exit status
SubprocessRuns(n, name) ==
    {[returncode |-> rc, cwd |-> d] :
        rc \in {0, 1}, d \in {cwd, (name :> Produced(n)) @@ cwd}}

SeqInit ==
    /\ \E J \in 0..MaxSeqSboms, c \in 1..MaxBatchCount,
          f \in {"cyclonedx", "spdx"} :
          seq_args = [count |-> c, output_dir |-> DEFAULT_OUTPUT_DIR,
                      sboms |-> J, format |-> f]
    /\ seq_pc = "start"
    /\ seq_number = 0
    /\ cwd \in {<<>>, SBOM_OUTPUT :> Earlier}
    /\ seq_outdir = <<>>
    /\ CompIdle
    /\ PipeIdle
    /\ GenIdle
    /\ BatchIdle
    /\ CliIdle

\* the head of `for i in range(args.sboms)`: the next iteration, or the end
SeqContinue ==
    IF seq_number < seq_args.sboms
    THEN /\ seq_number' = seq_number + 1
         /\ seq_pc' = "components"
    ELSE /\ seq_pc' = "done"
         /\ UNCHANGED seq_number

\* an exception no except clause of the script catches
SeqCrash == seq_pc' = "crashed" /\ UNCHANGED seq_number

\* ensure_output_directory: os.makedirs succeeds or raises OSError
SeqEnsureOutputDirectory ==
    /\ seq_pc = "start"
    /\ SeqContinue \/ SeqCrash
    /\ UNCHANGED <<seq_args, cwd, seq_outdir, compVars, pipeVars, genVars,
                   batchVars, cliVars>>

\* generate_components and the test of its result: False skips the
\* iteration
SeqGenerateComponents ==
    /\ seq_pc = "components"
    /\ \/ \E run \in SubprocessRuns(seq_number, COMPONENTS_FILE) :
             /\ cwd' = run.cwd
             /\ IF run.returncode = 0
                THEN seq_pc' = "sbom" /\ UNCHANGED seq_number
                ELSE SeqContinue
       \/ SeqCrash /\ UNCHANGED cwd
    /\ UNCHANGED <<seq_args, seq_outdir, compVars, pipeVars, genVars,
                   batchVars, cliVars>>

\* generate_sbom and the test of its result: python3 sbom_generator.py
\* --format <format> --output sbom.json; False skips the iteration
SeqGenerateSbom ==
    /\ seq_pc = "sbom"
    /\ \/ \E run \in SubprocessRuns(seq_number, SBOM_OUTPUT) :
             /\ cwd' = run.cwd
             /\ IF run.returncode = 0
                THEN seq_pc' = "copy" /\ UNCHANGED seq_number
                ELSE SeqContinue
       \/ SeqCrash /\ UNCHANGED cwd
    /\ UNCHANGED <<seq_args, seq_outdir, compVars, pipeVars, genVars,
                   batchVars, cliVars>>

\* generate_unique_filename and copy_sbom_to_output: nothing is copied when
\* sbom.json does not exist; shutil.copy2 copies it, or raises (caught)
\* before or after it has begun to write the destination
SeqCopy ==
    /\ seq_pc = "copy"
    /\ LET output_file ==
              random_sboms_generate_unique_filename(
                  seq_args.output_dir, seq_args.format, seq_args.count,
                  seq_number)
       IN IF SBOM_OUTPUT \notin DOMAIN cwd
          THEN UNCHANGED seq_outdir
          ELSE \/ seq_outdir' = (output_file :> cwd[SBOM_OUTPUT]) @@ seq_outdir
               \/ seq_outdir' =
                     (output_file :> [cwd[SBOM_OUTPUT] EXCEPT
                                         !.complete = FALSE]) @@ seq_outdir
               \/ UNCHANGED seq_outdir
    /\ SeqContinue
    /\ UNCHANGED <<seq_args, cwd, compVars, pipeVars, genVars, batchVars,
                   cliVars>>

SeqNext ==
    \/ SeqEnsureOutputDirectory
    \/ SeqGenerateComponents
    \/ SeqGenerateSbom
    \/ SeqCopy

SeqSpec == SeqInit /\ [][SeqNext]_vars

(***************************************************************************)
(* generate_components.py: calls of generate_components in one process.    *)
(* A Python name holds a reference: available_packages records which list  *)
(* it is bound to, the module-level COMMON_PACKAGES or a list of its own.  *)
(***************************************************************************)
COMMON_LICENSES ==
    <<"MIT", "Apache-2.0", "GPL-3.0", "BSD-3-Clause", "LGPL-2.1", "MPL-2.0",
      "BSD-2-Clause", "AGPL-3.0", "ISC", "Unlicense", "CC0-1.0">>

\* installed_ratio as a fraction <<numerator, denominator>>: 0.0, 0.5, 0.7
\* (the default) and 1.0
Ratios == {<<0, 1>>, <<1, 2>>, <<7, 10>>, <<1, 1>>}

\* int(total_count * installed_ratio); for the ratios and counts explored
\* the float product truncates to the same integer
InstalledCount(a) == (a.total_count * a.ratio[1]) \div a.ratio[2]

\* total_count - installed_count
CustomCount(a) == a.total_count - InstalledCount(a)

\* the lists `pip list --format json` can yield
PipLists == {<<>>, <<"pip">>, <<"pip", "requests">>}

\* the values drawn for f"{randint(0, 5)}.{randint(0, 9)}.{randint(0, 9)}"
CustomVersions == {<<"0", ".", "0", ".", "0">>, <<"5", ".", "9", ".", "9">>}

\* the values drawn for f"package-{random.randint(1000, 9999)}"
FakePackages == {<<"package-", "1000">>, <<"package-", "9999">>}

\* the list with the element at position p left out
RemoveAt(list, p) ==
    [k \in 1..(Len(list) - 1) |-> IF k < p THEN list[k] ELSE list[k + 1]]

\* list.remove(x): the first occurrence of x is removed
ListRemove(list, x) ==
    RemoveAt(list, CHOOSE p \in 1..Len(list) :
                      list[p] = x /\ \A q \in 1..(p - 1) : list[q] # x)

\* list(set(list)): every value once.  The order Python yields depends on
\* the hash seed; no later step depends on it beyond the draw, and the order
\* of first occurrence is used
RECURSIVE ListOfSet(_)
ListOfSet(list) ==
    IF list = <<>> THEN <<>>
    ELSE LET init == ListOfSet(SubSeq(list, 1, Len(list) - 1))
             last == list[Len(list)]
         IN IF \E k \in 1..Len(init) : init[k] = last THEN init
            ELSE Append(init, last)

\* the list the name available_packages refers to
Available ==
    IF available_packages.bound = "COMMON_PACKAGES" THEN COMMON_PACKAGES
    ELSE available_packages.list

\* the name bound to the module-level list itself
BoundToCatalog == [bound |-> "COMMON_PACKAGES", list |-> <<>>]

\* the name bound to a list of its own
BoundToLocal(list) == [bound |-> "local", list |-> list]

\* the position generate_components takes once components holds n entries
GcPosition(a, n) ==
    IF n < InstalledCount(a) THEN "installed"
    ELSE IF n < a.total_count THEN "custom"
    ELSE "write"

\* the permutations of a list
Shuffles(list) ==
    {[k \in 1..Len(list) |-> list[f[k]]] :
        f \in {g \in [1..Len(list) -> 1..Len(list)] :
                 \A x, y \in 1..Len(list) : x # y => g[x] # g[y]}}

CompInit ==
    /\ CompIdle
    /\ SeqIdle
    /\ PipeIdle
    /\ GenIdle
    /\ BatchIdle
    /\ CliIdle

\* lines 48-55 for arguments a: what available_packages is bound to.  The
\* list get_installed_packages returns is a new list when pip answers, and
\* COMMON_PACKAGES itself when the listing fails; extend() changes the list
\* in place, list(set(...)) makes a new one
BindAvailable(a) ==
    IF ~a.use_real_packages
    THEN /\ available_packages' = BoundToCatalog
         /\ UNCHANGED COMMON_PACKAGES
    ELSE \/ IF Len(COMMON_PACKAGES) < InstalledCount(a)
            THEN /\ COMMON_PACKAGES' = COMMON_PACKAGES \o COMMON_PACKAGES
                 /\ available_packages' =
                       BoundToLocal(ListOfSet(COMMON_PACKAGES'))
            ELSE /\ available_packages' = BoundToCatalog
                 /\ UNCHANGED COMMON_PACKAGES
         \/ /\ \E listing \in PipLists :
                  available_packages' =
                     IF Len(listing) < InstalledCount(a)
                     THEN BoundToLocal(ListOfSet(listing \o COMMON_PACKAGES))
                     ELSE BoundToLocal(listing)
            /\ UNCHANGED COMMON_PACKAGES

\* a call of generate_components up to the first loop
GcCall ==
    /\ gc_pc \in {"idle", "returned", "raised"}
    /\ gc_calls < MaxCalls
    /\ \E total \in 1..MaxTotal, r \in Ratios, real \in BOOLEAN :
          LET a == [total_count |-> total, ratio |-> r,
                    use_real_packages |-> real]
          IN /\ gc_args' = a
             /\ BindAvailable(a)
             /\ gc_pc' = GcPosition(a, 0)
    /\ gc_calls' = gc_calls + 1
    /\ gc_components' = <<>>
    /\ UNCHANGED <<components_json, seqVars, pipeVars, genVars, batchVars,
                   cliVars>>

\* one iteration of `for _ in range(installed_count)`
GcInstalled ==
    /\ gc_pc = "installed"
    /\ IF Available # <<>>
       THEN \E p \in 1..Min(MaxPick, Len(Available)) :
               LET package == Available[p]
               IN /\ IF available_packages.bound = "COMMON_PACKAGES"
                     THEN /\ COMMON_PACKAGES' =
                                ListRemove(COMMON_PACKAGES, package)
                          /\ UNCHANGED available_packages
                     ELSE /\ available_packages' =
                                BoundToLocal(ListRemove(Available, package))
                          /\ UNCHANGED COMMON_PACKAGES
                  /\ gc_components' =
                        Append(gc_components,
                               [type |-> "installed", name |-> <<package>>])
       ELSE /\ \E fake_package \in FakePackages :
                  gc_components' =
                     Append(gc_components,
                            [type |-> "installed", name |-> fake_package])
            /\ UNCHANGED <<COMMON_PACKAGES, available_packages>>
    /\ gc_pc' = GcPosition(gc_args, Len(gc_components) + 1)
    /\ UNCHANGED <<gc_args, components_json, gc_calls, seqVars, pipeVars,
                   genVars, batchVars, cliVars>>

\* one iteration of `for i in range(custom_count)`
GcCustom ==
    /\ gc_pc = "custom"
    /\ LET idx == Len(gc_components) - InstalledCount(gc_args)
       IN \E version \in CustomVersions,
             l \in 1..Min(MaxPick, Len(COMMON_LICENSES)) :
             gc_components' =
                Append(gc_components,
                       [type |-> "custom",
                        name |-> <<"custom-library-">> \o DecStr(idx + 1),
                        version |-> version,
                        license |-> COMMON_LICENSES[l]])
    /\ gc_pc' = GcPosition(gc_args, Len(gc_components) + 1)
    /\ UNCHANGED <<COMMON_PACKAGES, gc_args, available_packages,
                   components_json, gc_calls, seqVars, pipeVars, genVars,
                   batchVars, cliVars>>

\* random.shuffle, the write of the output file and the return; open() can
\* raise, and the exception leaves the function
GcWrite ==
    /\ gc_pc = "write"
    /\ \/ /\ components_json' \in Shuffles(gc_components)
          /\ gc_pc' = "returned"
       \/ /\ gc_pc' = "raised"
          /\ UNCHANGED components_json
    /\ gc_components' = <<>>
    /\ available_packages' = Unbound
    /\ UNCHANGED <<COMMON_PACKAGES, gc_args, gc_calls, seqVars, pipeVars,
                   genVars, batchVars, cliVars>>

CompNext ==
    \/ GcCall
    \/ GcInstalled
    \/ GcCustom
    \/ GcWrite

CompSpec == CompInit /\ [][CompNext]_vars

(***************************************************************************)
(* generate_pipeline_with_parallel_sbom_orchestration.py: generate_steps,  *)
(* one loop iteration per step.                                            *)
(***************************************************************************)
\* f'sbom_{sbom_format}_{component_count}_{i}.json'
sbom_filename(idx, count, sbom_format) ==
    <<"sbom_", sbom_format, "_">> \o DecStr(count) \o <<"_">> \o DecStr(idx)
        \o <<".json">>

\* f'/harness/src/sboms/{sbom_filename}'
sbom_path(filename) ==
    <<"/", "harness", "/", "src", "/", "sboms", "/">> \o filename

\* the step dict with component count and format exchanged in the file name
SscaStep_CountFirst(idx, count, sbom_format) ==
    LET path == sbom_path(<<"sbom_">> \o DecStr(count)
                             \o <<"_", sbom_format, "_">> \o DecStr(idx)
                             \o <<".json">>)
    IN [type |-> "SscaOrchestration",
        name |-> <<"SBOM Orchestration_">> \o DecStr(idx),
        identifier |-> <<"SBOMOrchestration_">> \o DecStr(idx),
        spec |-> [mode |-> "ingestion",
                  ingestion |-> [file |-> path],
                  source |-> [type |-> "local",
                              spec |-> [workspace |-> path,
                                        artifact_name |->
                                           <<"perf-test-">> \o DecStr(idx),
                                        type |-> "manual"]],
                  resources |-> [limits |-> [memory |-> "500Mi",
                                             cpu |-> "0.5"]]]]

\* the step dict the loop body builds for i = idx
SscaStep(idx, count, sbom_format) ==
    LET path == sbom_path(sbom_filename(idx, count, sbom_format))
    IN [type |-> "SscaOrchestration",
        name |-> <<"SBOM Orchestration_">> \o DecStr(idx),
        identifier |-> <<"SBOMOrchestration_">> \o DecStr(idx),
        spec |-> [mode |-> "ingestion",
                  ingestion |-> [file |-> path],
                  source |-> [type |-> "local",
                              spec |-> [workspace |-> path,
                                        artifact_name |->
                                           <<"perf-test-">> \o DecStr(idx),
                                        type |-> "manual"]],
                  resources |-> [limits |-> [memory |-> "500Mi",
                                             cpu |-> "0.5"]]]]

PipeInit ==
    /\ \E J \in 0..MaxSteps, c \in 0..MaxComponents,
          f \in {"cyclonedx", "spdx"} :
          pipe_args = [count |-> J, component_count |-> c, sbom_format |-> f]
    /\ pipe_pc = "loop"
    /\ pipe_steps = <<>>
    /\ SeqIdle
    /\ CompIdle
    /\ GenIdle
    /\ BatchIdle
    /\ CliIdle

\* one iteration of `for i in range(1, count + 1)`
PipeStep ==
    /\ pipe_pc = "loop"
    /\ Len(pipe_steps) < pipe_args.count
    /\ pipe_steps' = Append(pipe_steps,
                            SscaStep(Len(pipe_steps) + 1,
                                     pipe_args.component_count,
                                     pipe_args.sbom_format))
    /\ UNCHANGED <<pipe_args, pipe_pc, seqVars, compVars, genVars, batchVars,
                   cliVars>>

\* return steps
PipeReturn ==
    /\ pipe_pc = "loop"
    /\ Len(pipe_steps) >= pipe_args.count
    /\ pipe_pc' = "returned"
    /\ UNCHANGED <<pipe_args, pipe_steps, seqVars, compVars, genVars,
                   batchVars, cliVars>>

PipeNext ==
    \/ PipeStep
    \/ PipeReturn

PipeSpec == PipeInit /\ [][PipeNext]_vars

(***************************************************************************)
(* Reading a generated document                                            *)
(***************************************************************************)
DigitVal(c) == CHOOSE d \in 0..9 : Digit(d) = c

\* int(text) for a decimal digit sequence
RECURSIVE ParseDec(_)
ParseDec(ds) == IF Len(ds) = 1 THEN DigitVal(ds[1])
                ELSE 10 * ParseDec(SubSeq(ds, 1, Len(ds) - 1))
                       + DigitVal(ds[Len(ds)])

\* the sequence index an SPDX identifier carries
SpdxIndex(id) == ParseDec(Tail(id))

Done == gpc = "done"

\* the component list of the returned document
DocComponents == IF format = "spdx" THEN sbom.packages ELSE sbom.components

\* the key under which the returned document carries the graph
GraphKey == IF format = "spdx" THEN "relationships" ELSE "dependencies"

OtherGraphKey == IF format = "spdx" THEN "dependencies" ELSE "relationships"

\* the (source, target) index pairs the loops emitted with source src
EdgesOf(src) == {k \in 1..Len(edges) : edges[k][1] = src}

\* number of entries the returned document holds for source index src
DocEntriesOf(src) ==
    IF GraphKey \notin DOMAIN sbom THEN 0
    ELSE IF format = "spdx"
    THEN Cardinality({k \in 1..Len(sbom.relationships) :
             sbom.relationships[k].spdxElementId = SpdxId(src)})
    ELSE IF src \in 1..Len(sbom.dependencies)
    THEN Len(sbom.dependencies[src].dependsOn)
    ELSE 0

(***************************************************************************)
(* C1: a returned document has exactly component_count components, and in  *)
(* an SPDX document the package at position k (0-based) carries the        *)
(* identifier SPDXRef-Package-k, so the indices read back from the         *)
(* identifiers are 0..N-1 without repeats.                                 *)
(***************************************************************************)
C1_ExactCountAndIndices ==
    (Done /\ component_count >= 1) =>
        /\ Len(DocComponents) = component_count
        /\ format = "spdx" =>
             /\ \A k \in 0..(component_count - 1) :
                   /\ sbom.packages[k + 1].SPDXID = SpdxId(k)
                   /\ SpdxIndex(sbom.packages[k + 1].SPDXID) = k
             /\ \A j, k \in 1..Len(sbom.packages) :
                   j # k => sbom.packages[j].SPDXID # sbom.packages[k].SPDXID

C1_Witness ==
    /\ Done
    /\ format = "spdx"
    /\ component_count = MaxCount
    /\ complexity_level = 3
    /\ Len(sbom.packages) = MaxCount

(***************************************************************************)
(* C2: every emitted relationship (source i, target t) has                 *)
(* 0 <= t < i <= N-1, at every point of the second pass; the returned      *)
(* SPDX relationships name exactly these index pairs, and every CycloneDX  *)
(* dependsOn reference is the bom-ref of the drawn, strictly earlier       *)
(* component.                                                              *)
(***************************************************************************)
C2_TargetBeforeSource ==
    /\ \A k \in 1..Len(edges) :
          /\ 0 <= edges[k][2]
          /\ edges[k][2] < edges[k][1]
          /\ edges[k][1] <= component_count - 1
    /\ (Done /\ format = "spdx" /\ "relationships" \in DOMAIN sbom) =>
          /\ Len(sbom.relationships) = Len(edges)
          /\ \A k \in 1..Len(edges) :
                /\ SpdxIndex(sbom.relationships[k].spdxElementId) = edges[k][1]
                /\ SpdxIndex(sbom.relationships[k].relatedSpdxElement)
                       = edges[k][2]
    /\ (Done /\ format = "cyclonedx" /\ "dependencies" \in DOMAIN sbom) =>
          \A src \in 1..Len(sbom.dependencies) :
             LET entry == sbom.dependencies[src]
                 mine == SelectSeq(edges, LAMBDA e : e[1] = src)
             IN /\ entry.ref = sbom.components[src + 1]["bom-ref"]
                /\ Len(entry.dependsOn) = Len(mine)
                /\ \A k \in 1..Len(mine) :
                      /\ mine[k][2] < src
                      /\ entry.dependsOn[k]
                            = sbom.components[mine[k][2] + 1]["bom-ref"]

C2_Witness ==
    /\ Done
    /\ complexity_level = 3
    /\ component_count = MaxCount
    /\ \E k \in 1..Len(edges) :
          edges[k][1] = MaxCount - 1 /\ edges[k][2] = MaxCount - 2

(***************************************************************************)
(* C3: the returned document carries its graph key (relationships for      *)
(* SPDX, dependencies for CycloneDX) exactly when the tier is >= 2 and the *)
(* component count is >= 2, and then the list is not empty.                *)
(***************************************************************************)
C3_GraphKeyPresence ==
    Done =>
        /\ (GraphKey \in DOMAIN sbom)
              <=> (complexity_level >= 2 /\ component_count >= 2)
        /\ OtherGraphKey \notin DOMAIN sbom
        /\ GraphKey \in DOMAIN sbom => sbom[GraphKey] # <<>>

\* Scenario A (tier 1, SPDX) at the largest explored count
C3_Witness ==
    /\ Done
    /\ format = "spdx"
    /\ complexity_level = 1
    /\ component_count = MaxCount
    /\ "relationships" \notin DOMAIN sbom

C3_WitnessPresent ==
    /\ Done
    /\ complexity_level >= 2
    /\ component_count = 2
    /\ GraphKey \in DOMAIN sbom

ExpectedOutputPath(n) ==
    <<args.output_dir, "/", "sbom_", args.format, "_">> \o DecStr(args.count)
        \o <<"_">> \o DecStr(n) \o <<".json">>

\* main is past the with block
Completed == mpc = "done"

Ended == mpc \in {"done", "crashed"}

\* positions of the collected outcomes that report success
Successes == {r \in 1..Len(results) : results[r].success}

\* positions of the collected outcomes that carry sequential number n
OutcomesOf(n) == {r \in 1..Len(results) : results[r].sequential_number = n}

\* jobs a pool process is executing
Running == {k \in 1..Len(job) :
               job[k].pc \in {"start", "components", "sbom", "copy", "copying"}}

\* jobs that own a temporary directory
Live == {k \in 1..Len(job) : job[k].temp_dir # None}

(***************************************************************************)
(* C5: after a batch run that started with an empty output directory has   *)
(* completed, the output directory holds as many files as outcomes report  *)
(* success, and every file is sbom_<format>_<count>_<n>.json of a job n    *)
(* whose outcome reports success.                                          *)
(***************************************************************************)
C5_FilesMatchSuccesses ==
    Completed =>
        /\ Cardinality(DOMAIN outdir) = Cardinality(Successes)
        /\ \A p \in DOMAIN outdir :
              \E r \in Successes :
                 p = ExpectedOutputPath(results[r].sequential_number)

(***************************************************************************)
(* C6: an exception raised in a job's pipeline is recorded as that job's   *)
(* outcome with success = false: no future ends holding an exception, main *)
(* is never left through a job's exception, and when main ends every job   *)
(* has its outcome collected.                                              *)
(***************************************************************************)
C6_BulkheadIsolation ==
    /\ \A k \in 1..Len(futures) :
          futures[k].state = "FINISHED" =>
             /\ ~futures[k].exception
             /\ futures[k].result.sequential_number = k
    /\ mpc \notin {"raising", "crashed"}
    /\ Ended => \A n \in 1..args.sboms : OutcomesOf(n) # {}

(***************************************************************************)
(* C7: when main ends, the collected outcomes carry each sequential number *)
(* 1..J exactly once.                                                      *)
(***************************************************************************)
C7_OneOutcomePerJob ==
    Ended =>
        /\ Len(results) = args.sboms
        /\ \A n \in 1..args.sboms : Cardinality(OutcomesOf(n)) = 1

(***************************************************************************)
(* C8: the sequential number of a job is its position in submission order  *)
(* and never changes; its output path is sbom_<format>_<count>_<n>.json in *)
(* the output directory, whatever the interleaving; every file of the      *)
(* output directory is at the path of the job that wrote it; once all jobs *)
(* have finished, the files of the successful jobs are exactly the paths   *)
(* of their sequential numbers.                                            *)
(***************************************************************************)
C8_NamesFixedAtSubmission ==
    /\ \A k \in 1..Len(job) :
          /\ job[k].sequential_number = k
          /\ job[k].output_file # <<>> =>
                /\ job[k].output_file = ExpectedOutputPath(k)
                /\ job[k].result.output_file = ExpectedOutputPath(k)
                /\ job[k].result.sequential_number = k
    /\ \A p \in DOMAIN outdir : p = ExpectedOutputPath(outdir[p].writer)
    /\ \A r \in 1..Len(results) :
          results[r].output_file
              = ExpectedOutputPath(results[r].sequential_number)
    /\ (Len(futures) = args.sboms /\ AllFinished) =>
          {p \in DOMAIN outdir : job[outdir[p].writer].result.success}
              = {ExpectedOutputPath(n) :
                    n \in {k \in 1..Len(job) : job[k].result.success}}

\* job 2 has finished with success while job 1, submitted first, has not
C8_Witness ==
    /\ Len(job) = 2
    /\ job[2].pc = "returned"
    /\ job[2].result.success
    /\ job[1].pc \in {"start", "components", "sbom", "copy", "copying"}
    /\ ExpectedOutputPath(2) \in DOMAIN outdir
    /\ ExpectedOutputPath(1) \notin DOMAIN outdir

(***************************************************************************)
(* C9: at most args.workers jobs are executing at any time; every          *)
(* executing job is held by exactly one pool process, and a job that no    *)
(* process holds is still in the queue or has finished.                    *)
(***************************************************************************)
C9_AtMostWWorkers ==
    /\ Cardinality(Running) <= args.workers
    /\ \A k \in Running :
          Cardinality({w \in DOMAIN worker : worker[w] = k}) = 1
    /\ \A k \in 1..Len(job) :
          job[k].pc = "queued" <=> InList(k, call_queue)

\* every process is busy and a submitted job is waiting
C9_Witness ==
    /\ Cardinality(Running) = args.workers
    /\ call_queue # <<>>
    /\ Len(job) > args.workers

(***************************************************************************)
(* C10: every file a job writes outside the output directory lies inside   *)
(* the temporary directory that job owns, no two jobs own the same         *)
(* temporary directory at the same time, the only other file a job writes  *)
(* is its own output path, and the output paths of different jobs differ.  *)
(***************************************************************************)
C10_NoSharedWritePath ==
    /\ \A p \in DOMAIN files :
          /\ files[p].writer \in Live
          /\ Inside(p, TmpPath(job[files[p].writer].temp_dir))
    /\ \A m, n \in Live : m # n => job[m].temp_dir # job[n].temp_dir
    /\ \A p \in DOMAIN outdir :
          /\ p = job[outdir[p].writer].output_file
          /\ \A d \in 1..MaxTmp : ~Inside(p, TmpPath(d))
    /\ \A m, n \in 1..Len(job) :
          (m # n /\ job[m].output_file # <<>> /\ job[n].output_file # <<>>)
              => job[m].output_file # job[n].output_file

\* two jobs hold files in their temporary directories at the same time and
\* one of them has opened its output file
C10_Witness ==
    \E m, n \in Live :
       /\ m # n
       /\ components_file(job[m].temp_dir) \in DOMAIN files
       /\ temp_sbom_output(job[n].temp_dir) \in DOMAIN files
       /\ job[n].output_file \in DOMAIN outdir

(***************************************************************************)
(* C11: at every point of a batch run the file at a job's output path is   *)
(* absent or the complete artifact, and a job that has returned an outcome *)
(* with success = false has no file at its output path.                    *)
(***************************************************************************)
C11_AtomicPlacement ==
    /\ \A p \in DOMAIN outdir : outdir[p].content = "complete"
    /\ \A k \in 1..Len(job) :
          (job[k].pc = "returned" /\ ~job[k].result.success)
              => job[k].output_file \notin DOMAIN outdir

(***************************************************************************)
(* C12: in a returned CycloneDX document, read by bom-ref strings, no      *)
(* dependencies entry has the bom-ref of component 0 as its ref, and no    *)
(* entry lists its own ref in dependsOn.                                   *)
(***************************************************************************)
C12_FirstNeverSourceByRef ==
    (Done /\ format = "cyclonedx" /\ "dependencies" \in DOMAIN sbom) =>
        \A k \in 1..Len(sbom.dependencies) :
           /\ sbom.dependencies[k].ref # sbom.components[1]["bom-ref"]
           /\ ~InList(sbom.dependencies[k].ref, sbom.dependencies[k].dependsOn)

(***************************************************************************)
(* C13: get_random_component redraws only when the tier is above 1 and the *)
(* drawn (ecosystem, name) is already in the seen list, each redraw counts *)
(* one attempt, the count never exceeds 10, with 10 attempts used the next *)
(* step returns the pair it holds (a duplicate included) and records it,   *)
(* at tier 1 no attempt is ever counted, and every call returns.           *)
(***************************************************************************)
C13_RedrawAtMostTen ==
    /\ [][/\ attempts' <= 10
          /\ attempts' > attempts =>
                /\ complexity_level > 1
                /\ InList(ExistingKey(draw), existing_components)
                /\ attempts' = attempts + 1
                /\ components' = components
          /\ (gpc = "unique" /\ attempts = 10) =>
                /\ Len(components') = Len(components) + 1
                /\ existing_components'
                      = Append(existing_components, ExistingKey(draw))
          /\ complexity_level = 1 => attempts' = 0]_vars
    /\ (gpc = "unique") ~> (gpc = "components")

\* the fallback was taken: ten redraws were used up on a pair still in the
\* seen list
C13_Witness ==
    /\ gpc = "unique"
    /\ complexity_level > 1
    /\ attempts = 10
    /\ InList(ExistingKey(draw), existing_components)

(***************************************************************************)
(* Reading one run against the other tiers                                 *)
(***************************************************************************)
\* what get_random_component returned for the component at position k
InfoOf(k) ==
    LET d == CHOOSE c \in Catalog : ExistingKey(c) = existing_components[k]
        version == IF format = "spdx" THEN components[k].versionInfo
                   ELSE components[k].version
    IN comp_info(d, version)

\* keys of the component at position k had the same draw been used at tier t
ComponentKeysAt(k, t) ==
    LET lic == CHOOSE l \in LICENSES : TRUE
    IN IF format = "spdx" THEN DOMAIN spdx_package(k - 1, InfoOf(k), t, lic)
       ELSE DOMAIN cyclonedx_component(InfoOf(k), t, lic)

\* the graph list of a run at tier t is empty exactly when the second pass
\* is skipped: every source of the second pass appends at least one entry
GraphAt(t) ==
    IF HasSecondPass(t, component_count)
    THEN <<[relationshipType |-> "DEPENDS_ON"]>> ELSE <<>>

\* keys of the document of a run at tier t over the same components
DocumentKeysAt(t) ==
    IF format = "spdx" THEN DOMAIN spdx_document(components, GraphAt(t), t)
    ELSE DOMAIN cyclonedx_document(components, GraphAt(t), t)

(***************************************************************************)
(* C14: for the format, the count and the draws of a returned document,    *)
(* the keys of the document and of each component at a lower tier are      *)
(* among the keys at every higher tier (tier 1 within tier 2 within tier   *)
(* 3), and the keys at the tier that ran are the keys the document has.    *)
(***************************************************************************)
C14_FieldMonotonicity ==
    Done =>
        /\ DOMAIN sbom = DocumentKeysAt(complexity_level)
        /\ DocumentKeysAt(1) \subseteq DocumentKeysAt(2)
        /\ DocumentKeysAt(2) \subseteq DocumentKeysAt(3)
        /\ \A k \in 1..Len(DocComponents) :
              /\ DOMAIN DocComponents[k] = ComponentKeysAt(k, complexity_level)
              /\ ComponentKeysAt(k, 1) \subseteq ComponentKeysAt(k, 2)
              /\ ComponentKeysAt(k, 2) \subseteq ComponentKeysAt(k, 3)

\* a tier-3 CycloneDX document with a maven component, whose keys at tier 1
\* are fewer than the keys it has
C14_Witness ==
    /\ Done
    /\ format = "cyclonedx"
    /\ complexity_level = 3
    /\ component_count = MaxCount
    /\ "dependencies" \in DOMAIN sbom
    /\ \E k \in 1..Len(sbom.components) :
          /\ "group" \in DOMAIN sbom.components[k]
          /\ "licenses" \in DOMAIN sbom.components[k]
          /\ ComponentKeysAt(k, 1) # DOMAIN sbom.components[k]
    /\ DocumentKeysAt(1) # DOMAIN sbom

(***************************************************************************)
(* Reading a run of the script and an XML document                         *)
(***************************************************************************)
\* sboms/synthetic_spdx_<count>_c<complexity>.json
SpdxJsonPath ==
    <<"sboms", "/", "synthetic_", "spdx", "_">> \o DecStr(component_count)
        \o <<"_c">> \o DecStr(complexity_level) \o <<".", "json">>

XmlRequestedForSpdx == output = "xml" /\ format = "spdx"

\* positions of the children of element e that carry the tag
ChildIdx(e, tag) == {j \in 1..Len(e.children) : e.children[j].tag = tag}

\* the child of element e that carries the tag
Child(e, tag) == e.children[CHOOSE j \in ChildIdx(e, tag) : TRUE]

(***************************************************************************)
(* C15: when XML is requested for SPDX the script warns and continues with *)
(* JSON; it ends with exit code 0 and without an exception other than a    *)
(* refusal of the file system, and unless the file system refused, the     *)
(* only file it wrote is sboms/synthetic_spdx_<count>_c<complexity>.json   *)
(* holding the document as JSON.  No XML file is ever written for an SPDX  *)
(* run, and save_sbom called with "xml" on an SPDX document raises and     *)
(* leaves the directory as it was.                                         *)
(***************************************************************************)
C15_XmlForSpdxFallsBack ==
    /\ (cpc # "main" /\ XmlRequestedForSpdx) =>
          warned /\ output_format = "json"
    /\ warned => XmlRequestedForSpdx
    /\ \A p \in DOMAIN sboms_dir :
          sboms_dir[p].kind = "xml" => format = "cyclonedx"
    /\ (cpc = "exited" /\ XmlRequestedForSpdx) =>
          /\ exit_code = 0
          /\ raised \in {"", "OSError"}
          /\ raised = "" =>
                /\ DOMAIN sboms_dir = {SpdxJsonPath}
                /\ sboms_dir[SpdxJsonPath].kind = "json"
                /\ sboms_dir[SpdxJsonPath].content = sbom
          /\ raised = "OSError" => sboms_dir = <<>>
    /\ (gpc = "done" /\ format = "spdx") =>
          \A fs \in FsOutcomes :
             LET r == save_sbom(sboms_dir, sbom,
                                SyntheticFilename(format, component_count,
                                                  complexity_level, "xml"),
                                "xml", fs)
             IN r.raised # "" /\ r.dir = sboms_dir

\* Scenario C has run to its end and the JSON file is there
C15_Witness ==
    /\ cpc = "exited"
    /\ XmlRequestedForSpdx
    /\ warned
    /\ component_count = MaxCount
    /\ exit_code = 0
    /\ SpdxJsonPath \in DOMAIN sboms_dir

(***************************************************************************)
(* C16: a run of the script ends with exit code 0 exactly when nothing was *)
(* raised in generation or saving; a run in which an exception was raised  *)
(* ends with a non-zero exit code.                                         *)
(***************************************************************************)
C16_ExitCodeReflectsOutcome ==
    cpc = "exited" => (exit_code = 0 <=> raised = "")

(***************************************************************************)
(* C17: for a document returned by generate_cyclonedx_sbom the XML         *)
(* projection completes, its root is bom, the metadata child holds         *)
(* timestamp, tools and the root component, the components child holds one *)
(* component element per component in document order with the attributes   *)
(* type and bom-ref, and when the document has dependencies there is one   *)
(* dependency element per entry, with its ref and one dependsOn child per  *)
(* reference.                                                              *)
(***************************************************************************)
C17_XmlProjectionComplete ==
    (gpc = "done" /\ format = "cyclonedx") =>
        LET xml_doc == cyclonedx_json_to_xml(sbom)
            root == xml_doc.root
            metadata_elem == Child(root, "metadata")
            components_elem == Child(root, "components")
            deps_elem == Child(root, "dependencies")
        IN /\ xml_doc.raised = ""
           /\ root.tag = "bom"
           /\ Cardinality(ChildIdx(root, "metadata")) = 1
           /\ \A tag \in {"timestamp", "tools", "component"} :
                 Cardinality(ChildIdx(metadata_elem, tag)) = 1
           /\ Cardinality(ChildIdx(root, "components")) = 1
           /\ Len(components_elem.children) = Len(sbom.components)
           /\ \A k \in 1..Len(sbom.components) :
                 /\ components_elem.children[k].tag = "component"
                 /\ components_elem.children[k].attrs.type
                       = sbom.components[k].type
                 /\ components_elem.children[k].attrs["bom-ref"]
                       = sbom.components[k]["bom-ref"]
           /\ "dependencies" \in DOMAIN sbom =>
                 /\ Cardinality(ChildIdx(root, "dependencies")) = 1
                 /\ Len(deps_elem.children) = Len(sbom.dependencies)
                 /\ \A k \in 1..Len(sbom.dependencies) :
                       /\ deps_elem.children[k].tag = "dependency"
                       /\ deps_elem.children[k].attrs.ref
                             = sbom.dependencies[k].ref
                       /\ Len(deps_elem.children[k].children)
                             = Len(sbom.dependencies[k].dependsOn)

(***************************************************************************)
(* Names of the catalog the purl templates are read against: two names of  *)
(* each ecosystem that is not maven, and maven names by group and artifact *)
(***************************************************************************)
PlainNames ==
    [npm |-> {<<"react">>, <<"axios">>},
     pypi |-> {<<"requests">>, <<"scikit-learn">>},
     golang |-> {<<"github.com", "/", "gin-gonic", "/", "gin">>,
                 <<"go.uber.org", "/", "zap">>},
     nuget |-> {<<"Newtonsoft.Json">>, <<"Microsoft.AspNetCore">>}]

MavenNames ==
    {[group |-> <<"junit">>, artifact |-> <<"junit">>],
     [group |-> <<"org.springframework">>, artifact |-> <<"spring-core">>],
     [group |-> <<"ch.qos.logback">>, artifact |-> <<"logback-classic">>]}

\* the (ecosystem, name) drawn for the component at position k
DrawOf(k) == CHOOSE c \in Catalog : ExistingKey(c) = existing_components[k]

\* the version and the purl the returned document holds for position k
DocVersion(k) == IF format = "spdx" THEN sbom.packages[k].versionInfo
                 ELSE sbom.components[k].version

DocPurl(k) == IF format = "spdx"
              THEN sbom.packages[k].externalRefs[1].referenceLocator
              ELSE sbom.components[k].purl

(***************************************************************************)
(* C18: generate_purl gives pkg:maven/<group>/<artifact>@<version> for a   *)
(* maven name group:artifact and pkg:<ecosystem>/<name>@<version> for npm, *)
(* pypi, golang and nuget, for every version; and the purl of every        *)
(* component of a returned document is generate_purl of the ecosystem and  *)
(* name drawn for it and of the version the document gives it.             *)
(***************************************************************************)
C18_PurlMatchesTemplate ==
    /\ \A version \in Versions :
          /\ \A e \in DOMAIN PlainNames : \A name \in PlainNames[e] :
                generate_purl(e, name, version)
                    = <<"pkg:", e, "/">> \o name \o <<"@", version>>
          /\ \A m \in MavenNames :
                generate_purl("maven", m.group \o <<":">> \o m.artifact,
                              version)
                    = <<"pkg:maven/">> \o m.group \o <<"/">> \o m.artifact
                          \o <<"@", version>>
    /\ Done =>
          \A k \in 1..Len(DocComponents) :
             /\ DocPurl(k)
                   = generate_purl(DrawOf(k)[1], DrawOf(k)[2], DocVersion(k))
             /\ DrawOf(k)[1] = "maven" =>
                   DocPurl(k) = <<"pkg:maven/", "junit", "/", "junit", "@",
                                  DocVersion(k)>>
             /\ DrawOf(k)[1] = "npm" =>
                   DocPurl(k) = <<"pkg:", "npm", "/", "react", "@",
                                  DocVersion(k)>>

\* a returned document holding a maven and an npm component with different
\* versions
C18_Witness ==
    /\ Done
    /\ component_count = MaxCount
    /\ \E j, k \in 1..Len(DocComponents) :
          /\ DrawOf(j)[1] = "maven"
          /\ DrawOf(k)[1] = "npm"
          /\ DocVersion(j) # DocVersion(k)

(***************************************************************************)
(* C19: any two components at different positions of a returned CycloneDX  *)
(* document have different bom-ref values.                                 *)
(***************************************************************************)
C19_BomRefsDistinct ==
    (Done /\ format = "cyclonedx") =>
        \A j, k \in 1..Len(sbom.components) :
           j # k => sbom.components[j]["bom-ref"] # sbom.components[k]["bom-ref"]

(***************************************************************************)
(* C20: a job is put on the queue once and never again; the steps a job    *)
(* has executed are an initial part of (components, sbom, copy) with no    *)
(* step twice, and grow by at most one step at a time; a job whose step    *)
(* reported a failure has returned with success = false having executed    *)
(* the steps up to the failed one and no later one; a job that reports     *)
(* success has executed each step once; a job that has ended never moves   *)
(* again.                                                                  *)
(***************************************************************************)
C20_NoRetries ==
    [][/\ Len(job') <= args.sboms
       /\ \A k \in 1..Len(job') :
             /\ Cardinality({q \in 1..Len(call_queue') :
                                call_queue'[q] = k}) <= 1
             /\ InList(k, call_queue') => job'[k].pc = "queued"
             /\ Len(job'[k].steps) <= Len(PipelineSteps)
             /\ job'[k].steps
                   = SubSeq(PipelineSteps, 1, Len(job'[k].steps))
             /\ job'[k].result.message = "Failed to generate components" =>
                   /\ job'[k].pc = "returned"
                   /\ ~job'[k].result.success
                   /\ job'[k].steps = <<"components">>
             /\ job'[k].result.message = "Failed to generate SBOM" =>
                   /\ job'[k].pc = "returned"
                   /\ ~job'[k].result.success
                   /\ job'[k].steps = <<"components", "sbom">>
             /\ job'[k].result.message
                      \in {"SBOM file not found", "Error copying SBOM"} =>
                   /\ job'[k].pc = "returned"
                   /\ ~job'[k].result.success
             /\ job'[k].result.success => job'[k].steps = PipelineSteps
       /\ \A k \in 1..Len(job) :
             /\ job[k].pc \in {"returned", "raised"} => job'[k] = job[k]
             /\ Len(job'[k].steps) <= Len(job[k].steps) + 1]_vars

\* main has ended on a batch in which a job failed at SBOM generation: the
\* job ran two steps, once each, and was not run again
C20_Witness ==
    /\ mpc = "done"
    /\ args.sboms = MaxJobs
    /\ \E k \in 1..Len(job) :
          /\ job[k].pc = "returned"
          /\ job[k].result.message = "Failed to generate SBOM"
          /\ job[k].steps = <<"components", "sbom">>

(***************************************************************************)
(* Reading an SPDX package                                                 *)
(***************************************************************************)
\* positions of the external references of package p with the given type
RefsOfType(p, type) ==
    {r \in 1..Len(p.externalRefs) : p.externalRefs[r].referenceType = type}

(***************************************************************************)
(* C21: every package of a returned SPDX document has exactly one purl     *)
(* external reference at every tier; it has a cpe23Type reference, a       *)
(* website reference, description, copyrightText and attributionTexts      *)
(* exactly when the tier is >= 2; so it has 1 external reference at tier 1 *)
(* and 3 at tiers 2 and 3.                                                 *)
(***************************************************************************)
C21_SpdxFieldMatrix ==
    (Done /\ format = "spdx") =>
        \A k \in 1..Len(sbom.packages) :
           LET p == sbom.packages[k]
           IN /\ Cardinality(RefsOfType(p, "purl")) = 1
              /\ Cardinality(RefsOfType(p, "cpe23Type"))
                    = (IF complexity_level >= 2 THEN 1 ELSE 0)
              /\ Cardinality(RefsOfType(p, "website"))
                    = (IF complexity_level >= 2 THEN 1 ELSE 0)
              /\ \A key \in {"description", "copyrightText",
                             "attributionTexts"} :
                    key \in DOMAIN p <=> complexity_level >= 2
              /\ Len(p.externalRefs) = (IF complexity_level = 1 THEN 1 ELSE 3)

\* a tier-2 SPDX document of the largest explored count
C21_Witness ==
    /\ Done
    /\ format = "spdx"
    /\ complexity_level = 2
    /\ component_count = MaxCount
    /\ Len(sbom.packages[MaxCount].externalRefs) = 3
    /\ "description" \in DOMAIN sbom.packages[MaxCount]

(***************************************************************************)
(* Reading a projected component element                                   *)
(***************************************************************************)
\* the keys create_component_element reads besides type, in its order
ProjectedKeys ==
    <<"name", "version", "description", "purl", "cpe", "licenses", "hashes">>

\* a component carrying every key a generated component can carry, and the
\* two keys (description, hashes) only the projection knows
FullComponent ==
    cyclonedx_component(comp_info(<<"maven", <<"junit", ":", "junit">>>>,
                                  "1.0.0"), 3, "MIT")
    @@ [description |-> <<"text">>,
        hashes |-> <<[alg |-> "SHA-1", content |-> "sha1"]>>]

\* FullComponent without the keys of the set absent
Without(absent) ==
    [key \in DOMAIN FullComponent \ absent |-> FullComponent[key]]

\* the element of component c is lossy in the stated way
LossyProjection(c) ==
    LET e == create_component_element(c)
        expected == SelectSeq(ProjectedKeys, LAMBDA key : key \in DOMAIN c)
    IN /\ e.tag = "component"
       /\ DOMAIN e.attrs
             = {"type"} \cup ({"bom-ref"} \cap DOMAIN c)
       /\ Len(e.children) = Len(expected)
       /\ \A j \in 1..Len(expected) :
             /\ e.children[j].tag = expected[j]
             /\ \A m \in 1..Len(e.children[j].children) :
                   e.children[j].children[m].tag \in {"license", "hash"}
       /\ \A j \in 1..Len(e.children) :
             e.children[j].tag
                 \notin {"properties", "externalReferences", "group"}

(***************************************************************************)
(* C22: the element create_component_element builds for a component has   *)
(* the attribute type, the attribute bom-ref when the component has the    *)
(* key, and one child for each of name, version, description, purl, cpe,   *)
(* licenses, hashes that the component has, in this order, and nothing     *)
(* else: properties, externalReferences and group give no node.  This      *)
(* holds for every component of a returned CycloneDX document and for      *)
(* every choice of which of the read keys a component carries (the choices *)
(* do not depend on the document and are read once, on the returned        *)
(* document without components).                                           *)
(***************************************************************************)
C22_ProjectionLossy ==
    (Done /\ format = "cyclonedx") =>
        /\ \A k \in 1..Len(sbom.components) :
              LossyProjection(sbom.components[k])
        /\ component_count = 0 =>
              \A absent \in SUBSET ({"bom-ref"} \cup
                         {ProjectedKeys[j] : j \in 1..Len(ProjectedKeys)}) :
                 LossyProjection(Without(absent))

\* a returned document has a maven component with licenses: it carries
\* group, properties and externalReferences, and its element has just the
\* five children name, version, purl, cpe, licenses
C22_Witness ==
    /\ Done
    /\ format = "cyclonedx"
    /\ \E k \in 1..Len(sbom.components) :
          /\ {"group", "properties", "externalReferences", "licenses"}
                \subseteq DOMAIN sbom.components[k]
          /\ Len(create_component_element(sbom.components[k]).children) = 5

(***************************************************************************)
(* The command line the orchestrator gives the generator                   *)
(***************************************************************************)
\* the command line generate_sbom builds for job k
JobArgv(k) ==
    generate_sbom_argv(components_file(job[k].temp_dir),
                       temp_sbom_output(job[k].temp_dir), args.format)

\* C23: a batch job can succeed: whenever a job is about to run the document
\* generator of the repository, every flag and flag value of the command
\* line the orchestrator built is one the generator's parser accepts
\* (parse_args returns instead of ending the process with status 2)
C23_GeneratorAcceptsArguments ==
    \A k \in 1..Len(job) :
       (job[k].pc = "sbom" /\ sbom_generator = "repository")
          => parse_args_status(JobArgv(k)) = 0

(***************************************************************************)
(* C24: in the sequential script, the artifact copied to the output file   *)
(* of job n was produced during iteration n of this run: the file at       *)
(* sbom_<format>_<count>_<n>.json never holds an sbom.json left by an       *)
(* earlier iteration or an earlier run.                                    *)
(***************************************************************************)
C24_CopiesOwnArtifact ==
    \A n \in 1..seq_args.sboms :
       LET output_file ==
              random_sboms_generate_unique_filename(
                  seq_args.output_dir, seq_args.format, seq_args.count, n)
       IN output_file \in DOMAIN seq_outdir
             => /\ seq_outdir[output_file].run = "this"
                /\ seq_outdir[output_file].iteration = n

(***************************************************************************)
(* Reading the catalog                                                     *)
(***************************************************************************)
\* the names a list holds
NamesOf(list) == {list[k] : k \in 1..Len(list)}

(***************************************************************************)
(* C25: generate_components leaves COMMON_PACKAGES unchanged: after any    *)
(* sequence of calls, with use_real_packages false or with the listing of  *)
(* installed packages failing, the list holds the same names as when the   *)
(* module was imported.                                                    *)
(***************************************************************************)
C25_CatalogUnchanged ==
    gc_pc \in {"returned", "raised"}
       => NamesOf(COMMON_PACKAGES) = NamesOf(CatalogAtImport)

(***************************************************************************)
(* Reading a path                                                          *)
(***************************************************************************)
\* the part of a path after its last "/"
Basename(path) ==
    LET slashes == {k \in 1..Len(path) : path[k] = "/"}
        last == IF slashes = {} THEN 0
                ELSE CHOOSE k \in slashes : \A j \in slashes : j <= k
    IN SubSeq(path, last + 1, Len(path))

(***************************************************************************)
(* C26: generate_steps returns exactly J steps; step i has the identifier  *)
(* SBOMOrchestration_i, the identifiers are pairwise distinct, and the     *)
(* file step i ingests has the base name of the path both orchestrators    *)
(* give to sequential number i for the same format and component count.    *)
(***************************************************************************)
C26_PipelineNamesAgree ==
    pipe_pc = "returned" =>
       /\ Len(pipe_steps) = pipe_args.count
       /\ \A x, y \in 1..Len(pipe_steps) :
             x # y => pipe_steps[x].identifier # pipe_steps[y].identifier
       /\ \A n \in 1..Len(pipe_steps) :
             /\ pipe_steps[n].identifier
                   = <<"SBOMOrchestration_">> \o DecStr(n)
             /\ Basename(pipe_steps[n].spec.ingestion.file)
                   = Basename(generate_unique_filename(
                                 DEFAULT_OUTPUT_DIR, pipe_args.sbom_format,
                                 pipe_args.component_count, n))
             /\ Basename(pipe_steps[n].spec.ingestion.file)
                   = Basename(random_sboms_generate_unique_filename(
                                 DEFAULT_OUTPUT_DIR, pipe_args.sbom_format,
                                 pipe_args.component_count, n))

\* generate_steps has returned the largest pipeline explored, with step
\* numbers and a component count of more than one digit
C26_Witness ==
    /\ pipe_pc = "returned"
    /\ pipe_args.count = MaxSteps
    /\ pipe_args.component_count >= 10
    /\ Len(pipe_steps) = MaxSteps
    /\ Len(pipe_steps[MaxSteps].identifier) = 3

====
